---- MODULE Spec2Model ----
(***************************************************************************)
(* The control tree of src/unnamed/part_001 (form-control.model, the       *)
(* second, "Custom" generation of the classes: lines 1002-1985):           *)
(* AbstractControl, AbstractControlCollection, CustomFormControl,          *)
(* CustomFormControlGroup and CustomFormControlArray, with the validator   *)
(* Required of the demo application (src/unnamed/part_003).                *)
(*                                                                         *)
(* The heap maps control identities to the fields of the object.  Every    *)
(* public method is an operator from a machine state [h, r, threw] (heap,  *)
(* suspended async rounds, exception raised) to the machine state the      *)
(* method leaves behind; an action applies one method to one control.      *)
(***************************************************************************)
EXTENDS Integers, Sequences, FiniteSets, TLC

\* ----------------------------------------------------------------- bounds
\* Largest value of the millisecond clock read by `new Date()`.
MaxClock == 2
\* Largest number of async validation rounds suspended at an `await`.
MaxInflight == 2
\* Largest number of controls push and insert grow an array to.
MaxLength == 2

\* ------------------------------------------------------- JavaScript values
\* Every value is a tagged tuple, so that any two values can be compared.
Null == <<"null">>
Undefined == <<"undefined">>
True == <<"true">>
False == <<"false">>
Str(s) == <<"s", s>>
\* An object literal: its own keys in insertion order, entries <<key, value>>.
Obj(entries) == <<"o", entries>>
Arr(items) == <<"a", items>>

IsObj(v) == v[1] = "o"
IsArr(v) == v[1] = "a"
IsStr(v) == v[1] = "s"
Entries(o) == o[2]
Items(a) == a[2]

\* JavaScript truthiness of a value (ToBoolean).
Truthy(v) == ~(v \in {Null, Undefined, False, Str("")})

\* Object.keys(o), in insertion order.
Keys(o) == [i \in 1..Len(Entries(o)) |-> Entries(o)[i][1]]

HasKey(o, k) == \E i \in 1..Len(Entries(o)) : Entries(o)[i][1] = k

\* o[k]: the value stored under k, undefined when k is no key of o.
Get(o, k) ==
    IF HasKey(o, k)
    THEN Entries(o)[CHOOSE i \in 1..Len(Entries(o)) : Entries(o)[i][1] = k][2]
    ELSE Undefined

\* {...o, [k]: v}: v replaces the entry of k in place, or is appended.
Put(o, k, v) ==
    IF HasKey(o, k)
    THEN Obj([i \in 1..Len(Entries(o)) |->
                IF Entries(o)[i][1] = k THEN <<k, v>> ELSE Entries(o)[i]])
    ELSE Obj(Append(Entries(o), <<k, v>>))

\* delete o[k]
Delete(o, k) == Obj(SelectSeq(Entries(o), LAMBDA e : e[1] # k))

\* ------------------------------------------------------------------ status
VALID == "VALID"
INVALID == "INVALID"
PENDING == "PENDING"
DISABLED == "DISABLED"
\* `status !: FormControlStatus` before the first assignment (undefined).
UNSET == "UNSET"

\* ------------------------------------------------------------------- state
Ids == {1, 2, 3, 4, 5}
NoParent == 0

VARIABLES
    heap,     \* Ids -> the fields of the control object
    clock,    \* the millisecond clock `new Date()` reads
    rounds,   \* the _runAsyncValidator calls suspended at an await, oldest first
    last      \* the public call (or promise resolution) that led to this state

vars == <<heap, clock, rounds, last>>

\* The fields of a control object right after `super(...)` and the field
\* initialisers, before the body of the subclass constructor.
Fresh(kind, validator, asyncValidator, controls, t) ==
    [kind |-> kind,
     value |-> Undefined,
     pendingValue |-> Undefined,
     pendingChange |-> Undefined,
     pristine |-> TRUE,
     status |-> UNSET,
     errors |-> Undefined,
     validator |-> validator,
     asyncValidator |-> asyncValidator,
     parent |-> NoParent,
     controls |-> controls,
     asyncValidatorFiredTime |-> t]

\* An identity no object has been constructed for.
Unused == Fresh("none", Null, Null, <<>>, 0)

disabled(c) == c.status = DISABLED
enabled(c) == c.status # DISABLED
valid(c) == c.status = VALID
invalid(c) == c.status = INVALID
pending(c) == c.status = PENDING
dirty(c) == ~c.pristine

IsCollection(c) == c.kind \in {"group", "array"}

\* The children of a composite, in iteration order (_forEachChild).
Children(c) ==
    IF c.kind = "group"
    THEN [i \in 1..Len(c.controls) |-> c.controls[i][2]]
    ELSE c.controls

\* The registered names of a group, in Object.keys order.
Names(c) == [i \in 1..Len(c.controls) |-> c.controls[i][1]]

\* this.controls[name] of a group: the child's identity, 0 when undefined.
ControlNamed(c, name) ==
    IF \E i \in 1..Len(c.controls) : c.controls[i][1] = name
    THEN c.controls[CHOOSE i \in 1..Len(c.controls) : c.controls[i][1] = name][2]
    ELSE 0

\* ---------------------------------------------------------- sync validators
\* Required of the demo application.
Required(c) ==
    IF c.value \in {Str(""), Null, Undefined}
    THEN Obj(<< <<"required", True>> >>)
    ELSE Null

\* A caller-supplied ValidatorFn, by name.  Besides Required: Reject reports
\* {rejected: true} for every value, Blank returns the empty map {} and
\* Accept returns null.
ValidatorFn(name, c) ==
    CASE name = "Required" -> Required(c)
      [] name = "Reject" -> Obj(<< <<"rejected", True>> >>)
      [] name = "Blank" -> Obj(<<>>)
      [] OTHER -> Null

\* The loop of _runValidator over this.validator[i..]: a truthy result is
\* stored under the key `error` of tempResult.
RECURSIVE RunValidatorLoop(_, _, _, _)
RunValidatorLoop(vs, i, c, tempResult) ==
    IF i > Len(vs) THEN tempResult
    ELSE LET error == ValidatorFn(vs[i], c)
         IN RunValidatorLoop(vs, i + 1, c,
                IF Truthy(error) THEN Put(tempResult, "error", error)
                ELSE tempResult)

\* for (key in tempResult) if (!tempResult[key]) delete tempResult[key]
DeleteFalsy(o) == Obj(SelectSeq(Entries(o), LAMBDA e : Truthy(e[2])))

_runValidator(c) ==
    IF c.validator # Null /\ Len(c.validator) > 0
    THEN LET tempResult == DeleteFalsy(RunValidatorLoop(c.validator, 1, c, Obj(<<>>)))
         IN IF Len(Entries(tempResult)) > 0 THEN tempResult ELSE Null
    ELSE Null

\* --------------------------------------------------------- status and value
\* CustomFormControl._allControlsDisabled
Leaf_allControlsDisabled(h, id) == disabled(h[id])

\* CustomFormControlGroup._allControlsDisabled
Group_allControlsDisabled(h, id) ==
    IF \E i \in 1..Len(h[id].controls) : enabled(h[h[id].controls[i][2]])
    THEN FALSE
    ELSE Len(h[id].controls) > 0 \/ disabled(h[id])

\* CustomFormControlArray._allControlsDisabled
Array_allControlsDisabled(h, id) ==
    IF \E i \in 1..Len(h[id].controls) : enabled(h[h[id].controls[i]])
    THEN FALSE
    ELSE Len(h[id].controls) > 0 \/ disabled(h[id])

\* _allControlsDisabled that looks at the control alone, not at its children.
_allControlsDisabled_SelfOnly(h, id) == disabled(h[id])

_allControlsDisabled(h, id) ==
    CASE h[id].kind = "group" -> Group_allControlsDisabled(h, id)
      [] h[id].kind = "array" -> Array_allControlsDisabled(h, id)
      [] OTHER -> Leaf_allControlsDisabled(h, id)

\* CustomFormControlGroup.contains
contains(h, id, controlName) ==
    /\ ControlNamed(h[id], controlName) # 0
    /\ enabled(h[ControlNamed(h[id], controlName)])

\* CustomFormControlGroup._anyControls; condition[c] is the callback's result
\* for the control c.
Group_anyControls(h, id, condition) ==
    \E i \in 1..Len(h[id].controls) :
        /\ contains(h, id, h[id].controls[i][1])
        /\ condition[h[id].controls[i][2]]

\* CustomFormControlArray._anyControls
Array_anyControls(h, id, condition) ==
    \E i \in 1..Len(h[id].controls) :
        /\ enabled(h[h[id].controls[i]])
        /\ condition[h[id].controls[i]]

_anyControls(h, id, condition) ==
    IF h[id].kind = "group"
    THEN Group_anyControls(h, id, condition)
    ELSE Array_anyControls(h, id, condition)

_anyControlsHaveStatus(h, id, status) ==
    _anyControls(h, id, [c \in DOMAIN h |-> h[c].status = status])

_anyControlsDirty(h, id) ==
    _anyControls(h, id, [c \in DOMAIN h |-> dirty(h[c])])

\* AbstractControl._calculateStatus
Leaf_calculateStatus(h, id) ==
    IF _allControlsDisabled(h, id) THEN DISABLED
    ELSE IF Truthy(h[id].errors) THEN INVALID
    ELSE VALID

\* Collection_calculateStatus that looks for an INVALID child before it looks
\* for a PENDING one.
Collection_calculateStatus_InvalidFirst(h, id) ==
    IF _allControlsDisabled(h, id) THEN DISABLED
    ELSE IF Truthy(h[id].errors) THEN INVALID
    ELSE IF _anyControlsHaveStatus(h, id, INVALID) THEN INVALID
    ELSE IF _anyControlsHaveStatus(h, id, PENDING) THEN PENDING
    ELSE VALID

\* AbstractControlCollection._calculateStatus
Collection_calculateStatus(h, id) ==
    IF _allControlsDisabled(h, id) THEN DISABLED
    ELSE IF Truthy(h[id].errors) THEN INVALID
    ELSE IF _anyControlsHaveStatus(h, id, PENDING) THEN PENDING
    ELSE IF _anyControlsHaveStatus(h, id, INVALID) THEN INVALID
    ELSE VALID

_calculateStatus(h, id) ==
    IF IsCollection(h[id])
    THEN Collection_calculateStatus(h, id)
    ELSE Leaf_calculateStatus(h, id)

\* _reduceValue with `if (control.value)` for the test of the child.
_reduceValue_SkipsEmpty(h, id) ==
    LET kept == SelectSeq(h[id].controls, LAMBDA e : Truthy(h[e[2]].value))
    IN Obj([i \in 1..Len(kept) |-> <<kept[i][1], h[kept[i][2]].value>>])

\* CustomFormControlGroup._reduceValue: {name: child.value} over the children
\* that are enabled, or over all of them when the group itself is disabled.
_reduceValue(h, id) ==
    LET kept == SelectSeq(h[id].controls,
                          LAMBDA e : enabled(h[e[2]]) \/ disabled(h[id]))
    IN Obj([i \in 1..Len(kept) |-> <<kept[i][1], h[kept[i][2]].value>>])

\* Array_filteredValue that takes the value of every child, enabled or not.
Array_filteredValue_AllChildren(h, id) ==
    Arr([i \in 1..Len(h[id].controls) |-> h[h[id].controls[i]].value])

\* CustomFormControlArray._updateValue, the value it assigns.
Array_filteredValue(h, id) ==
    LET kept == SelectSeq(h[id].controls,
                          LAMBDA k : enabled(h[k]) \/ disabled(h[id]))
    IN Arr([i \in 1..Len(kept) |-> h[kept[i]].value])

_updateValue(h, id) ==
    CASE h[id].kind = "group" -> [h EXCEPT ![id].value = _reduceValue(h, id)]
      [] h[id].kind = "array" -> [h EXCEPT ![id].value = Array_filteredValue(h, id)]
      [] OTHER -> h

_setInitialStatus(h, id) ==
    [h EXCEPT ![id].status =
        IF _allControlsDisabled(h, id) THEN DISABLED ELSE VALID]

_updateControlsErrors(h, id) ==
    [h EXCEPT ![id].status = _calculateStatus(h, id)]

\* setErrors that stores the map and leaves the status as it was.
setErrors_KeepsStatus(h, id, errors) == [h EXCEPT ![id].errors = errors]

\* setErrors that stores the map and takes the status from the sync
\* validators of the control.
setErrors_Revalidates(h, id, errors) ==
    [h EXCEPT ![id].errors = errors,
              ![id].status = IF disabled(h[id]) THEN DISABLED
                             ELSE IF _runValidator(h[id]) # Null THEN INVALID
                             ELSE VALID]

setErrors(h, id, errors) ==
    _updateControlsErrors([h EXCEPT ![id].errors = errors], id)

\* control.errors[errorCode] of getError (path omitted: the control itself).
getError(c, errorCode) ==
    IF Truthy(c.errors) THEN Get(c.errors, errorCode) ELSE Null

hasError(c, errorCode) == Truthy(getError(c, errorCode))

\* ------------------------------------------------------- async validation
\* A call of _runAsyncValidator suspended at `await validator(this)`:
\* nowDate and the list the for-of loop iterates are its locals, i is the
\* position of the validator awaited.  superseded is history: whether
\* _runAsyncValidator was entered again on the control since.
Round(id, nowDate, vs) ==
    [ctl |-> id, nowDate |-> nowDate, vs |-> vs, i |-> 1,
     tempResult |-> Obj(<<>>), superseded |-> FALSE]

Supersede(r, id) ==
    [k \in 1..Len(r) |->
        IF r[k].ctl = id THEN [r[k] EXCEPT !.superseded = TRUE] ELSE r[k]]

\* _runAsyncValidator that invokes all the async validators at once (as
\* Promise.all would): one suspended call per validator.
_runAsyncValidator_Concurrent(st, id, t) ==
    LET h1 == [st.h EXCEPT ![id].asyncValidatorFiredTime = t]
        r1 == Supersede(st.r, id)
        av == h1[id].asyncValidator
        h2 == [h1 EXCEPT ![id].status = PENDING]
    IN IF av = Null THEN [st EXCEPT !.h = h1, !.r = r1]
       ELSE IF Len(av) > 0
            THEN [st EXCEPT !.h = h2,
                            !.r = r1 \o [j \in 1..Len(av) |->
                                            [Round(id, t, av) EXCEPT !.i = j]]]
            ELSE [st EXCEPT !.h = setErrors(h2, id, Obj(<<>>)), !.r = r1]

\* _runAsyncValidator up to its first await (or to its end when nothing is
\* awaited): the synchronous part of the call.
_runAsyncValidator(st, id, t) ==
    LET h1 == [st.h EXCEPT ![id].asyncValidatorFiredTime = t]
        r1 == Supersede(st.r, id)
        av == h1[id].asyncValidator
        h2 == [h1 EXCEPT ![id].status = PENDING]
    IN IF av = Null THEN [st EXCEPT !.h = h1, !.r = r1]
       ELSE IF Len(av) > 0
            THEN [st EXCEPT !.h = h2, !.r = Append(r1, Round(id, t, av))]
            ELSE [st EXCEPT !.h = setErrors(h2, id, Obj(<<>>)), !.r = r1]

\* for (key in tempResult) if (!tempResult[key]) result[key] = true,
\* with result = {} before the loop.
AsyncResult(tempResult) ==
    LET falsy == SelectSeq(Entries(tempResult), LAMBDA e : ~Truthy(e[2]))
    IN Obj([i \in 1..Len(falsy) |-> <<falsy[i][1], True>>])

RemoveAt(s, k) == [j \in 1..(Len(s) - 1) |-> IF j < k THEN s[j] ELSE s[j + 1]]

\* ResumeAsyncValidator without the marker comparison before setErrors.
ResumeAsyncValidator_Unguarded(st, k, error) ==
    LET rd == st.r[k]
        fired == st.h[rd.ctl].asyncValidatorFiredTime
        temp == IF Truthy(error)
                THEN Obj(<< <<"tempResult", rd.tempResult>> >>)
                ELSE rd.tempResult
    IN IF rd.nowDate = fired
       THEN [st EXCEPT !.r = RemoveAt(st.r, k)]
       ELSE IF rd.i < Len(rd.vs)
            THEN [st EXCEPT !.r[k] = [rd EXCEPT !.i = rd.i + 1, !.tempResult = temp]]
            ELSE [st EXCEPT !.h = setErrors(st.h, rd.ctl, AsyncResult(temp)),
                            !.r = RemoveAt(st.r, k)]

\* The rest of _runAsyncValidator from the await of round k on, the awaited
\* promise having resolved to error, up to the next await or the return.
ResumeAsyncValidator(st, k, error) ==
    LET rd == st.r[k]
        fired == st.h[rd.ctl].asyncValidatorFiredTime
        temp == IF Truthy(error)
                THEN Obj(<< <<"tempResult", rd.tempResult>> >>)
                ELSE rd.tempResult
    IN IF rd.nowDate = fired
       THEN [st EXCEPT !.r = RemoveAt(st.r, k)]
       ELSE IF rd.i < Len(rd.vs)
            THEN [st EXCEPT !.r[k] = [rd EXCEPT !.i = rd.i + 1, !.tempResult = temp]]
            ELSE IF rd.nowDate = fired
                 THEN [st EXCEPT !.h = setErrors(st.h, rd.ctl, AsyncResult(temp)),
                                 !.r = RemoveAt(st.r, k)]
                 ELSE [st EXCEPT !.r = RemoveAt(st.r, k)]

\* ------------------------------------------------------------ validation
\* Leaf_updateValueAndValidity that launches the async validators whatever the
\* status after the sync validators is.
Leaf_updateValueAndValidity_AlwaysAsync(st, id, t) ==
    LET h1 == _setInitialStatus(st.h, id)
        h2 == [h1 EXCEPT ![id].errors = _runValidator(h1[id])]
        h3 == [h2 EXCEPT ![id].status = _calculateStatus(h2, id)]
    IN IF enabled(h1[id])
       THEN _runAsyncValidator([st EXCEPT !.h = h3], id, t)
       ELSE [st EXCEPT !.h = h1]

\* AbstractControl.updateValueAndValidity
Leaf_updateValueAndValidity(st, id, t) ==
    LET h1 == _setInitialStatus(st.h, id)
        h2 == [h1 EXCEPT ![id].errors = _runValidator(h1[id])]
        h3 == [h2 EXCEPT ![id].status = _calculateStatus(h2, id)]
    IN IF enabled(h1[id])
       THEN IF h3[id].status \in {VALID, PENDING}
            THEN _runAsyncValidator([st EXCEPT !.h = h3], id, t)
            ELSE [st EXCEPT !.h = h3]
       ELSE [st EXCEPT !.h = h1]

\* AbstractControlCollection.updateValueAndValidity
Collection_updateValueAndValidity(st, id, t) ==
    LET h1 == _updateValue(_setInitialStatus(st.h, id), id)
        h2 == [h1 EXCEPT ![id].errors = _runValidator(h1[id])]
        h3 == [h2 EXCEPT ![id].status = _calculateStatus(h2, id)]
    IN IF enabled(h1[id])
       THEN IF h3[id].status \in {VALID, PENDING}
            THEN _runAsyncValidator([st EXCEPT !.h = h3], id, t)
            ELSE [st EXCEPT !.h = h3]
       ELSE [st EXCEPT !.h = h1]

updateValueAndValidity(st, id, t) ==
    IF IsCollection(st.h[id])
    THEN Collection_updateValueAndValidity(st, id, t)
    ELSE Leaf_updateValueAndValidity(st, id, t)

RECURSIVE updateAllValueAndValidity(_, _, _)

\* this._anyControls(control => {...}) of updateAllValueAndValidity, from
\* child i on. The callback returns undefined, so neither `res || ...` of the
\* group nor `some` of the array ends the iteration early; both call it on
\* the enabled children only (contains(name), control.enabled).
RECURSIVE updateAllValueAndValidity_Children(_, _, _, _)
updateAllValueAndValidity_Children(st, id, i, t) ==
    IF i > Len(Children(st.h[id])) THEN st
    ELSE LET control == Children(st.h[id])[i]
         IN updateAllValueAndValidity_Children(
                IF ~enabled(st.h[control]) THEN st
                ELSE IF IsCollection(st.h[control])
                     THEN updateAllValueAndValidity(st, control, t)
                     ELSE updateValueAndValidity(st, control, t),
                id, i + 1, t)

\* AbstractControlCollection.updateAllValueAndValidity: the children, then
\* the statements of the collection's updateValueAndValidity.
updateAllValueAndValidity(st, id, t) ==
    Collection_updateValueAndValidity(
        updateAllValueAndValidity_Children(st, id, 1, t), id, t)

\* ------------------------------------------------------- dirty and pristine
\* AbstractControl.markAsDirty
RECURSIVE markAsDirty(_, _)
markAsDirty(h, id) ==
    LET h1 == [h EXCEPT ![id].pristine = FALSE]
    IN IF h[id].parent # NoParent THEN markAsDirty(h1, h[id].parent) ELSE h1

\* AbstractControlCollection._updatePristine
RECURSIVE _updatePristine(_, _)
_updatePristine(h, id) ==
    LET h1 == [h EXCEPT ![id].pristine = ~_anyControlsDirty(h, id)]
    IN IF h[id].parent # NoParent THEN _updatePristine(h1, h[id].parent) ELSE h1

\* Leaf_markAsPristine that leaves the ancestors as they are.
Leaf_markAsPristine_SelfOnly(h, id) == [h EXCEPT ![id].pristine = TRUE]

\* AbstractControl.markAsPristine
Leaf_markAsPristine(h, id) ==
    LET h1 == [h EXCEPT ![id].pristine = TRUE]
    IN IF h[id].parent # NoParent THEN _updatePristine(h1, h[id].parent) ELSE h1

RECURSIVE markAsPristine(_, _)
\* this._forEachChild(control => control.markAsPristine()) from child i on.
RECURSIVE PristineChildren(_, _, _)
PristineChildren(h, kids, i) ==
    IF i > Len(kids) THEN h
    ELSE PristineChildren(markAsPristine(h, kids[i]), kids, i + 1)

\* AbstractControlCollection.markAsPristine
Collection_markAsPristine(h, id) ==
    LET h1 == PristineChildren([h EXCEPT ![id].pristine = TRUE], Children(h[id]), 1)
    IN IF h[id].parent # NoParent THEN _updatePristine(h1, h[id].parent) ELSE h1

markAsPristine(h, id) ==
    IF IsCollection(h[id])
    THEN Collection_markAsPristine(h, id)
    ELSE Leaf_markAsPristine(h, id)

\* ------------------------------------------------------ disable and enable
\* Leaf_disable that also drops the value of the control.
Leaf_disable_ClearsValue(h, id) ==
    [h EXCEPT ![id].status = DISABLED, ![id].errors = Null, ![id].value = Null]

\* AbstractControl.disable
Leaf_disable(h, id) == [h EXCEPT ![id].status = DISABLED, ![id].errors = Null]

\* AbstractControl.enable
Leaf_enable(h, id) == [h EXCEPT ![id].status = VALID, ![id].errors = Null]

RECURSIVE disable(_, _)
\* this._forEachChild(control => control.disable()) from child i on.
RECURSIVE DisableChildren(_, _, _)
DisableChildren(h, kids, i) ==
    IF i > Len(kids) THEN h
    ELSE DisableChildren(disable(h, kids[i]), kids, i + 1)

\* Collection_disable without the cascade to the children.
Collection_disable_NoCascade(h, id) == _updateValue(Leaf_disable(h, id), id)

\* AbstractControlCollection.disable
Collection_disable(h, id) ==
    _updateValue(DisableChildren(Leaf_disable(h, id), Children(h[id]), 1), id)

\* AbstractControlCollection.enable
Collection_enable(h, id) ==
    _updateValue(DisableChildren(Leaf_enable(h, id), Children(h[id]), 1), id)

disable(h, id) ==
    IF IsCollection(h[id]) THEN Collection_disable(h, id) ELSE Leaf_disable(h, id)

enable(h, id) ==
    IF IsCollection(h[id]) THEN Collection_enable(h, id) ELSE Leaf_enable(h, id)

\* ---------------------------------------------------------------- setValue
Throw(st) == [st EXCEPT !.threw = TRUE]

\* Leaf_setValue with a guard that ignores the call on a disabled control.
Leaf_setValue_IgnoredWhenDisabled(st, id, value, t) ==
    IF disabled(st.h[id]) THEN st
    ELSE LET h1 == [st.h EXCEPT ![id].value = value, ![id].pendingValue = value]
         IN updateValueAndValidity([st EXCEPT !.h = markAsDirty(h1, id)], id, t)

\* CustomFormControl.setValue
\* A setValue that also re-validates the parent of the leaf.
Leaf_setValue_UpdatesParent(st, id, value, t) ==
    LET h1 == [st.h EXCEPT ![id].value = value, ![id].pendingValue = value]
        s1 == updateValueAndValidity([st EXCEPT !.h = markAsDirty(h1, id)], id, t)
    IN IF s1.h[id].parent # NoParent
       THEN updateValueAndValidity(s1, s1.h[id].parent, t)
       ELSE s1

Leaf_setValue(st, id, value, t) ==
    LET h1 == [st.h EXCEPT ![id].value = value, ![id].pendingValue = value]
    IN updateValueAndValidity([st EXCEPT !.h = markAsDirty(h1, id)], id, t)

\* value[key] as JavaScript evaluates it for the values of the model: a
\* property read of null or undefined throws, a string or an array has no
\* property of a control's name.
CanRead(value) == value # Null /\ value # Undefined
Read(value, key) == IF IsObj(value) THEN Get(value, key) ELSE Undefined

\* CustomFormControlGroup._checkAllValuesPresent: TRUE when it throws.
Group_checkAllValuesPresent(h, id, value) ==
    /\ Len(h[id].controls) > 0
    /\ \/ ~CanRead(value)
       \/ \E i \in 1..Len(h[id].controls) :
              Read(value, h[id].controls[i][1]) = Undefined

\* CustomFormControlGroup._throwIfControlMissing: TRUE when it throws.
Group_throwIfControlMissing(h, id, name) ==
    \/ Len(h[id].controls) = 0
    \/ ControlNamed(h[id], name) = 0

\* Object.keys(value) for the values of the model; the characters of a string
\* are its keys "0", "1", ...
ObjectKeys(value) ==
    CASE IsObj(value) -> Keys(value)
      [] IsStr(value) -> IF value = Str("") THEN <<>> ELSE <<"0">>
      [] IsArr(value) -> [i \in 1..Len(Items(value)) |-> "0"]
      [] OTHER -> <<>>

RECURSIVE setValue(_, _, _, _)

\* Group_setValueLoop that passes over a key with no control (as patchValue).
RECURSIVE Group_setValueLoop_Lenient(_, _, _, _, _)
Group_setValueLoop_Lenient(st, id, value, i, t) ==
    IF st.threw \/ i > Len(ObjectKeys(value)) THEN st
    ELSE LET name == ObjectKeys(value)[i]
         IN IF Group_throwIfControlMissing(st.h, id, name)
            THEN Group_setValueLoop_Lenient(st, id, value, i + 1, t)
            ELSE Group_setValueLoop_Lenient(
                    setValue(st, ControlNamed(st.h[id], name), Read(value, name), t),
                    id, value, i + 1, t)

\* Object.keys(value).forEach(name => {...}) of CustomFormControlGroup.setValue
\* from key i on; an exception ends the loop and leaves what was done before.
RECURSIVE Group_setValueLoop(_, _, _, _, _)
Group_setValueLoop(st, id, value, i, t) ==
    IF st.threw \/ i > Len(ObjectKeys(value)) THEN st
    ELSE LET name == ObjectKeys(value)[i]
         IN IF Group_throwIfControlMissing(st.h, id, name)
            THEN Throw(st)
            ELSE Group_setValueLoop(
                    setValue(st, ControlNamed(st.h[id], name), Read(value, name), t),
                    id, value, i + 1, t)

\* Group_setValue without the closing updateValueAndValidity.
Group_setValue_NoRevalidate(st, id, value, t) ==
    IF Group_checkAllValuesPresent(st.h, id, value) \/ ~CanRead(value)
    THEN Throw(st)
    ELSE LET st1 == Group_setValueLoop(st, id, value, 1, t)
         IN IF st1.threw THEN st1
            ELSE [st1 EXCEPT !.h = markAsDirty(st1.h, id)]

\* CustomFormControlGroup.setValue
Group_setValue(st, id, value, t) ==
    IF Group_checkAllValuesPresent(st.h, id, value) \/ ~CanRead(value)
    THEN Throw(st)
    ELSE LET st1 == Group_setValueLoop(st, id, value, 1, t)
         IN IF st1.threw THEN st1
            ELSE updateValueAndValidity(
                    [st1 EXCEPT !.h = markAsDirty(st1.h, id)], id, t)

\* value[i] of an array value, i counted from 0.
ReadAt(value, i) ==
    IF IsArr(value) /\ i < Len(Items(value)) THEN Items(value)[i + 1] ELSE Undefined

\* Array_checkAllValuesPresent that accepts every value (as patchValue).
Array_checkAllValuesPresent_Lenient(h, id, value) == FALSE

\* CustomFormControlArray._checkAllValuesPresent: TRUE when it throws.
Array_checkAllValuesPresent(h, id, value) ==
    \E i \in 1..Len(h[id].controls) : ReadAt(value, i - 1) = Undefined

\* CustomFormControlArray._throwIfControlMissing: TRUE when it throws.
Array_throwIfControlMissing(h, id, index) ==
    \/ Len(h[id].controls) = 0
    \/ index >= Len(h[id].controls)

\* value.forEach((newValue, index) => {...}) of CustomFormControlArray.setValue
\* from index i on.
RECURSIVE Array_setValueLoop(_, _, _, _, _)
Array_setValueLoop(st, id, value, i, t) ==
    IF st.threw \/ i >= Len(Items(value)) THEN st
    ELSE IF Array_throwIfControlMissing(st.h, id, i)
         THEN Throw(st)
         ELSE Array_setValueLoop(
                 setValue(st, st.h[id].controls[i + 1], ReadAt(value, i), t),
                 id, value, i + 1, t)

\* CustomFormControlArray.setValue; a value that is no array has no forEach.
Array_setValue(st, id, value, t) ==
    IF ~IsArr(value) \/ Array_checkAllValuesPresent(st.h, id, value)
    THEN Throw(st)
    ELSE LET st1 == Array_setValueLoop(st, id, value, 0, t)
         IN IF st1.threw THEN st1
            ELSE updateValueAndValidity(
                    [st1 EXCEPT !.h = markAsDirty(st1.h, id)], id, t)

setValue(st, id, value, t) ==
    CASE st.h[id].kind = "group" -> Group_setValue(st, id, value, t)
      [] st.h[id].kind = "array" -> Array_setValue(st, id, value, t)
      [] OTHER -> Leaf_setValue(st, id, value, t)

\* ------------------------------------------------------------------- reset
\* AbstractControl._isBoxedValue
_isBoxedValue(formState) ==
    /\ IsObj(formState)
    /\ Len(Keys(formState)) = 2
    /\ HasKey(formState, "value")
    /\ HasKey(formState, "disabled")

\* CustomFormControl._applyFormState.  A boxed value has the keys `value` and
\* `disabled` and no other, so formState.FormControlStatus is undefined and the
\* read of its property `disabled` throws a TypeError once the value is stored.
_applyFormState(st, id, formState) ==
    LET s1 == [st EXCEPT !.h[id].value = IF _isBoxedValue(formState)
                                         THEN Get(formState, "value")
                                         ELSE formState,
                         !.h[id].pendingValue = IF _isBoxedValue(formState)
                                                THEN Get(formState, "value")
                                                ELSE formState]
    IN IF _isBoxedValue(formState) THEN Throw(s1) ELSE s1

\* A parameter with the default d: d takes the place of undefined.
Default(arg, d) == IF arg = Undefined THEN d ELSE arg

\* Leaf_reset without the markAsPristine() call.
Leaf_reset_KeepsDirty(st, id, formState, t) ==
    LET s1 == Leaf_setValue(st, id, st.h[id].value, t)
        s3 == _applyFormState(s1, id, Default(formState, Null))
    IN IF s3.threw THEN s3 ELSE [s3 EXCEPT !.h[id].pendingChange = False]

\* CustomFormControl.reset
Leaf_reset(st, id, formState, t) ==
    LET s1 == Leaf_setValue(st, id, st.h[id].value, t)
        s2 == [s1 EXCEPT !.h = markAsPristine(s1.h, id)]
        s3 == _applyFormState(s2, id, Default(formState, Null))
    IN IF s3.threw THEN s3 ELSE [s3 EXCEPT !.h[id].pendingChange = False]

RECURSIVE reset(_, _, _, _)
\* this._forEachChild((control, name) => control.reset(value[name])) of
\* CustomFormControlGroup.reset, from child i on.
RECURSIVE Group_resetLoop(_, _, _, _, _)
Group_resetLoop(st, id, value, i, t) ==
    IF st.threw \/ i > Len(st.h[id].controls) THEN st
    ELSE IF ~CanRead(value) THEN Throw(st)
    ELSE Group_resetLoop(
            reset(st, st.h[id].controls[i][2], Read(value, st.h[id].controls[i][1]), t),
            id, value, i + 1, t)

\* CustomFormControlGroup.reset
Group_reset(st, id, value, t) ==
    LET s1 == Group_resetLoop(st, id, Default(value, Obj(<<>>)), 1, t)
    IN IF s1.threw THEN s1 ELSE updateValueAndValidity(s1, id, t)

\* this._forEachChild((control, index) => control.reset(value[index])) of
\* CustomFormControlArray.reset, from child i on (i counted from 1).
RECURSIVE Array_resetLoop(_, _, _, _, _)
Array_resetLoop(st, id, value, i, t) ==
    IF st.threw \/ i > Len(st.h[id].controls) THEN st
    ELSE IF ~CanRead(value) THEN Throw(st)
    ELSE Array_resetLoop(
            reset(st, st.h[id].controls[i], ReadAt(value, i - 1), t),
            id, value, i + 1, t)

\* CustomFormControlArray.reset
Array_reset(st, id, value, t) ==
    LET s1 == Array_resetLoop(st, id, Default(value, Arr(<<>>)), 1, t)
    IN IF s1.threw THEN s1 ELSE updateValueAndValidity(s1, id, t)

reset(st, id, value, t) ==
    CASE st.h[id].kind = "group" -> Group_reset(st, id, value, t)
      [] st.h[id].kind = "array" -> Array_reset(st, id, value, t)
      [] OTHER -> Leaf_reset(st, id, value, t)

\* ------------------------------------------------------------ construction
\* new CustomFormControl(formState, validator, asyncValidator):
\* _applyFormState(formState), then updateValueAndValidity; an exception of
\* _applyFormState ends the constructor.
NewControl(st, id, formState, validator, asyncValidator, t) ==
    LET c == Fresh("leaf", validator, asyncValidator, <<>>, t)
        s1 == _applyFormState([st EXCEPT !.h[id] = c], id, Default(formState, Null))
    IN IF s1.threw THEN s1 ELSE updateValueAndValidity(s1, id, t)

\* _setUpControls of a group or an array: control.setParent(this) for each
\* child, child i on.
RECURSIVE _setUpControls(_, _, _)
_setUpControls(h, id, i) ==
    IF i > Len(Children(h[id])) THEN h
    ELSE _setUpControls([h EXCEPT ![Children(h[id])[i]].parent = id], id, i + 1)

\* new CustomFormControlGroup(controls, validator, asyncValidator), controls
\* the entries <<name, child>> of the object passed.
NewGroup(st, id, controls, validator, asyncValidator, t) ==
    LET c == Fresh("group", validator, asyncValidator, controls, t)
    IN updateValueAndValidity(
          [st EXCEPT !.h = _setUpControls([st.h EXCEPT ![id] = c], id, 1)], id, t)

\* new CustomFormControlArray(controls, validator, asyncValidator)
NewArray(st, id, controls, validator, asyncValidator, t) ==
    LET c == Fresh("array", validator, asyncValidator, controls, t)
    IN updateValueAndValidity(
          [st EXCEPT !.h = _setUpControls([st.h EXCEPT ![id] = c], id, 1)], id, t)


\* ------------------------------------------------------ structural mutators
\* AbstractControl.setParent
setParent(h, control, parent) == [h EXCEPT ![control].parent = parent]

\* registerControl that replaces the control registered under the name.
registerControl_Overwrites(h, id, name, control) ==
    setParent([h EXCEPT ![id].controls =
                  Append(SelectSeq(@, LAMBDA e : e[1] # name), <<name, control>>)],
              control, id)

\* What registerControl returns: the control registered under the name.
registerControl_return(h, id, name, control) ==
    IF ControlNamed(h[id], name) # 0 THEN ControlNamed(h[id], name) ELSE control

\* CustomFormControlGroup.registerControl: an occupied name keeps its control.
registerControl(h, id, name, control) ==
    IF ControlNamed(h[id], name) # 0 THEN h
    ELSE setParent([h EXCEPT ![id].controls = Append(@, <<name, control>>)],
                   control, id)

\* delete this.controls[name]
DeleteControl(h, id, name) ==
    [h EXCEPT ![id].controls = SelectSeq(@, LAMBDA e : e[1] # name)]

\* CustomFormControlGroup.addControl
addControl(st, id, name, control, t) ==
    updateValueAndValidity(
        [st EXCEPT !.h = registerControl(st.h, id, name, control)], id, t)

\* CustomFormControlGroup.setControl; control 0 stands for a falsy argument.
Group_setControl(st, id, name, control, t) ==
    LET h1 == DeleteControl(st.h, id, name)
        h2 == IF control # 0 THEN registerControl(h1, id, name, control) ELSE h1
    IN updateValueAndValidity([st EXCEPT !.h = h2], id, t)

\* CustomFormControlGroup.removeControl
removeControl(st, id, name, t) ==
    updateValueAndValidity([st EXCEPT !.h = DeleteControl(st.h, id, name)], id, t)

\* CustomFormControlArray._registerControl
_registerControl(h, id, control) == setParent(h, control, id)

\* controls.splice(index, deleteCount, ...items), index counted from 0 and
\* clamped to the length as Array.prototype.splice does.
Splice(controls, index, deleteCount, items) ==
    LET at == IF index > Len(controls) THEN Len(controls) ELSE index
        end == IF at + deleteCount > Len(controls) THEN Len(controls)
               ELSE at + deleteCount
    IN SubSeq(controls, 1, at) \o items \o SubSeq(controls, end + 1, Len(controls))

\* CustomFormControlArray.push
push(st, id, control, t) ==
    LET h1 == [st.h EXCEPT ![id].controls = Append(@, control)]
    IN updateValueAndValidity(
          [st EXCEPT !.h = _registerControl(h1, id, control)], id, t)

\* CustomFormControlArray.insert
insert(st, id, index, control, t) ==
    LET h1 == [st.h EXCEPT ![id].controls = Splice(@, index, 0, <<control>>)]
    IN updateValueAndValidity(
          [st EXCEPT !.h = _registerControl(h1, id, control)], id, t)

\* CustomFormControlArray.removeAt
removeAt(st, id, index, t) ==
    updateValueAndValidity(
        [st EXCEPT !.h[id].controls = Splice(@, index, 1, <<>>)], id, t)

\* CustomFormControlArray.setControl; control 0 stands for a falsy argument.
Array_setControl(st, id, index, control, t) ==
    LET h1 == [st.h EXCEPT ![id].controls = Splice(@, index, 1, <<>>)]
        h2 == IF control # 0
              THEN _registerControl(
                      [h1 EXCEPT ![id].controls = Splice(@, index, 0, <<control>>)],
                      id, control)
              ELSE h1
    IN updateValueAndValidity([st EXCEPT !.h = h2], id, t)

\* clear that empties the array and leaves the aggregate value as it was.
clear_KeepsValue(st, id, t) ==
    IF Len(st.h[id].controls) < 1 THEN st
    ELSE [st EXCEPT !.h[id].controls = <<>>]

\* CustomFormControlArray.clear
clear(st, id, t) ==
    IF Len(st.h[id].controls) < 1 THEN st
    ELSE updateValueAndValidity([st EXCEPT !.h[id].controls = <<>>], id, t)

\* ------------------------------------------------------------- path lookup
\* A path segment that is a number.
Num(n) == <<"n", n>>

\* A string path, given by its characters.
Text(chars) == <<"t", chars>>

RECURSIVE Concat(_, _)
Concat(chars, i) == IF i > Len(chars) THEN "" ELSE chars[i] \o Concat(chars, i + 1)

\* path.split(delimiter) from character i on, cur the characters of the
\* segment being read: the segments as strings, "" between two delimiters.
RECURSIVE split(_, _, _, _)
split(chars, delimiter, i, cur) ==
    IF i > Len(chars) THEN <<Str(Concat(cur, 1))>>
    ELSE IF chars[i] = delimiter
         THEN <<Str(Concat(cur, 1))>> \o split(chars, delimiter, i + 1, <<>>)
         ELSE split(chars, delimiter, i + 1, Append(cur, chars[i]))

\* The property key a segment is used as: a number is its decimal string.
PropertyKey(name) == IF name[1] = "n" THEN ToString(name[2]) ELSE name[2]

\* The position this.controls[name] of an array reads: a number, or a string
\* that is the decimal form of one; -1 when name is no index.
ArrayIndex(name) ==
    IF name[1] = "n" THEN name[2]
    ELSE IF \E n \in 0..MaxLength : ToString(n) = name[2]
         THEN CHOOSE n \in 0..MaxLength : ToString(n) = name[2]
         ELSE -1

\* FindStep that passes over a disabled child (as contains does).
FindStep_EnabledOnly(h, v, name) ==
    LET c == CASE v = 0 -> 0
               [] h[v].kind = "group" -> ControlNamed(h[v], PropertyKey(name))
               [] h[v].kind = "array" ->
                     IF ArrayIndex(name) >= 0 /\ ArrayIndex(name) < Len(h[v].controls)
                     THEN h[v].controls[ArrayIndex(name) + 1]
                     ELSE 0
               [] OTHER -> 0
    IN IF c # 0 /\ disabled(h[c]) THEN 0 ELSE c

\* One step of the reduce of _find: the child of v that name selects, 0 for
\* null.  A group is indexed by an own key, an array by position (at); a leaf
\* has no children.
FindStep(h, v, name) ==
    CASE v = 0 -> 0
      [] h[v].kind = "group" -> ControlNamed(h[v], PropertyKey(name))
      [] h[v].kind = "array" ->
            IF ArrayIndex(name) >= 0 /\ ArrayIndex(name) < Len(h[v].controls)
            THEN h[v].controls[ArrayIndex(name) + 1]
            ELSE 0
      [] OTHER -> 0

RECURSIVE FindReduce(_, _, _, _)
FindReduce(h, v, path, i) ==
    IF i > Len(path) THEN v
    ELSE FindReduce(h, FindStep(h, v, path[i]), path, i + 1)

\* _find(control, path, delimiter); path is null, a string or the array of
\* its segments.  The result is the control found, 0 for null.  No statement
\* of _find throws.
_find(h, control, path, delimiter) ==
    IF path = Null THEN 0
    ELSE LET segments == IF IsArr(path) THEN Items(path)
                         ELSE split(path[2], delimiter, 1, <<>>)
         IN IF Len(segments) = 0 THEN 0
            ELSE FindReduce(h, control, segments, 1)

\* AbstractControl.get: the control found, 0 for null.
get(h, id, path) == _find(h, id, path, ".")

\* ------------------------------------------------------------- getRawValue
\* CustomFormControlGroup.getRawValue and CustomFormControlArray.getRawValue:
\* the value of a leaf child, getRawValue() of a composite child.
\* getRawValue that leaves out the disabled children, as the aggregate value
\* of an enabled composite does.
RECURSIVE getRawValue_EnabledOnly(_, _)
getRawValue_EnabledOnly(h, id) ==
    LET Raw(k) == IF h[k].kind = "leaf" THEN h[k].value
                  ELSE getRawValue_EnabledOnly(h, k)
        kept == SelectSeq(h[id].controls,
                    LAMBDA e : enabled(h[IF h[id].kind = "group" THEN e[2] ELSE e]))
    IN IF h[id].kind = "group"
       THEN Obj([i \in 1..Len(kept) |-> <<kept[i][1], Raw(kept[i][2])>>])
       ELSE Arr([i \in 1..Len(kept) |-> Raw(kept[i])])

RECURSIVE getRawValue(_, _)
getRawValue(h, id) ==
    LET Raw(k) == IF h[k].kind = "leaf" THEN h[k].value ELSE getRawValue(h, k)
    IN IF h[id].kind = "group"
       THEN Obj([i \in 1..Len(h[id].controls) |->
                    <<h[id].controls[i][1], Raw(h[id].controls[i][2])>>])
       ELSE Arr([i \in 1..Len(h[id].controls) |-> Raw(h[id].controls[i])])

\* The controls below a control, at any depth.
RECURSIVE Descendants(_, _)
Descendants(h, id) ==
    LET kids == {Children(h[id])[i] : i \in 1..Len(Children(h[id]))}
    IN kids \cup UNION {Descendants(h, k) : k \in kids}

\* ------------------------------------------------------------- FormBuilder
\* Whether a control built with the plain value v in the place of
\* validatorOrOpts calls something that is no function in _runValidator:
\* coerceToValidator keeps an array as the list and wraps any other truthy
\* value into a list of one, and _runValidator calls every item of the list.
CallsNonFunction(v) ==
    LET w == IF v \notin {Null, Undefined} /\ IsObj(v) THEN Get(v, "validators") ELSE v
    IN IF w \in {Null, Undefined} THEN FALSE
       ELSE IF IsArr(w) THEN Len(Items(w)) > 0
       ELSE Truthy(w)

\* FormBuilder.control with plain values for validatorOrOpts and
\* asyncValidator, as _createControl passes them from an array config.  The
\* constructor throws when _applyFormState or _runValidator does; an async
\* list of one non-function leaves the control PENDING (the async call is
\* rejected), the empty async list goes through setErrors({}).
FormBuilder_control(st, id, formState, validatorOrOpts, asyncValidator, t) ==
    LET c == Fresh("leaf", Null, Null, <<>>, t)
        s1 == _applyFormState([st EXCEPT !.h[id] = c], id, Default(formState, Null))
        emptyAsync == asyncValidator \notin {Null, Undefined}
                        /\ IsArr(asyncValidator) /\ Len(Items(asyncValidator)) = 0
        s2 == updateValueAndValidity(
                 [s1 EXCEPT !.h[id].asyncValidator = IF emptyAsync THEN <<>> ELSE Null],
                 id, t)
    IN IF s1.threw THEN s1
       ELSE IF CallsNonFunction(validatorOrOpts) THEN Throw(s1)
       ELSE IF Truthy(asyncValidator) /\ ~emptyAsync
            THEN [s2 EXCEPT !.h[id].status = PENDING]
            ELSE s2

\* FormBuilder._createControl for a config that is no control object: an
\* array is read as [value, validator, asyncValidator].
_createControl(st, id, controlConfig, t) ==
    IF controlConfig \notin {Null, Undefined} /\ IsArr(controlConfig)
    THEN LET n == Len(Items(controlConfig))
         IN FormBuilder_control(st, id, ReadAt(controlConfig, 0),
                                IF n > 1 THEN ReadAt(controlConfig, 1) ELSE Null,
                                IF n > 2 THEN ReadAt(controlConfig, 2) ELSE Null, t)
    ELSE FormBuilder_control(st, id, controlConfig, Undefined, Undefined, t)

\* _createControl for configs[i..], the control of configs[i] built at the
\* identity i.
RECURSIVE CreateControls(_, _, _, _)
CreateControls(st, configs, i, t) ==
    IF st.threw \/ i > Len(configs) THEN st
    ELSE CreateControls(_createControl(st, i, configs[i], t), configs, i + 1, t)

\* FormBuilder.group(controlsConfig) with no options: the group is built at
\* the identity after those of its children.
FormBuilder_group(st, controlsConfig, t) ==
    LET es == Entries(controlsConfig)
        s1 == CreateControls(st, [i \in 1..Len(es) |-> es[i][2]], 1, t)
    IN IF s1.threw THEN s1
       ELSE NewGroup(s1, Len(es) + 1, [i \in 1..Len(es) |-> <<es[i][1], i>>],
                     Null, Null, t)

\* FormBuilder.array(controlsConfig) with no validators.
FormBuilder_array(st, controlsConfig, t) ==
    LET cs == Items(controlsConfig)
        s1 == CreateControls(st, cs, 1, t)
    IN IF s1.threw THEN s1
       ELSE NewArray(s1, Len(cs) + 1, [i \in 1..Len(cs) |-> i], Null, Null, t)

\* The tree of the same structure as the one below id in h, built with the
\* construction convenience: FormBuilder.group / FormBuilder.array over the
\* rebuilt children for a composite, the raw value of a leaf as the config of
\* the leaf.  Every control is rebuilt at its own identity, on the heap of st.
RECURSIVE RebuildTree(_, _, _, _)
RECURSIVE RebuildChildren(_, _, _, _, _)
RebuildChildren(st, h, kids, i, t) ==
    IF st.threw \/ i > Len(kids) THEN st
    ELSE RebuildChildren(RebuildTree(st, h, kids[i], t), h, kids, i + 1, t)

RebuildTree(st, h, id, t) ==
    IF h[id].kind = "leaf" THEN _createControl(st, id, h[id].value, t)
    ELSE LET s1 == RebuildChildren(st, h, Children(h[id]), 1, t)
         IN IF s1.threw THEN s1
            ELSE IF h[id].kind = "group"
                 THEN NewGroup(s1, id, h[id].controls, Null, Null, t)
                 ELSE NewArray(s1, id, h[id].controls, Null, Null, t)

\* A validator argument of a constructor: undefined, null, one function
\* Fn(name), or an array of functions (the sequence of their names).
Fn(name) == <<"fn", name>>
IsFn(v) == Len(v) = 2 /\ v[1] = "fn"

\* An AbstractControlOptions object {validators, asyncValidators}, and an
\* object of the legacy keys {validator, asyncValidator}.
Options(validators, asyncValidators) == <<"options", validators, asyncValidators>>
LegacyOptions(validator, asyncValidator) == <<"legacy", validator, asyncValidator>>

\* isOptionsObj: not null, no array, an object.
isOptionsObj(validatorOrOpts) ==
    /\ validatorOrOpts \notin {Null, Undefined}
    /\ Len(validatorOrOpts) = 3
    /\ validatorOrOpts[1] \in {"options", "legacy"}

\* options[key]; a key the object does not hold reads undefined.
Property(options, key) ==
    CASE options[1] = "options" /\ key = "validators" -> options[2]
      [] options[1] = "options" /\ key = "asyncValidators" -> options[3]
      [] options[1] = "legacy" /\ key = "validator" -> options[2]
      [] options[1] = "legacy" /\ key = "asyncValidator" -> options[3]
      [] OTHER -> Undefined

\* The tail of both coerce functions: an array is the list, a function is
\* wrapped into a list of one, anything falsy gives null.
Coerced(validator) ==
    IF validator \in {Null, Undefined} THEN Null
    ELSE IF IsFn(validator) THEN <<validator[2]>>
    ELSE validator

\* coerceToValidator
coerceToValidator(validatorOrOpts) ==
    Coerced(IF isOptionsObj(validatorOrOpts)
            THEN Property(validatorOrOpts, "validators")
            ELSE validatorOrOpts)

\* coerceToAsyncValidator: origAsyncValidator, read from the options object,
\* is computed and never used; the result is made of the asyncValidator
\* parameter.
coerceToAsyncValidator(asyncValidator, validatorOrOpts) ==
    Coerced(asyncValidator)

\* new CustomFormControl(formState, validatorOrOpts, asyncValidator)
CustomFormControl(st, id, formState, validatorOrOpts, asyncValidator, t) ==
    NewControl(st, id, formState, coerceToValidator(validatorOrOpts),
               coerceToAsyncValidator(asyncValidator, validatorOrOpts), t)

\* new CustomFormControlGroup(controls, validatorOrOpts, asyncValidator)
CustomFormControlGroup(st, id, controls, validatorOrOpts, asyncValidator, t) ==
    NewGroup(st, id, controls, coerceToValidator(validatorOrOpts),
             coerceToAsyncValidator(asyncValidator, validatorOrOpts), t)

\* isAbstractControlOptions
isAbstractControlOptions(options) ==
    \/ Property(options, "asyncValidators") # Undefined
    \/ Property(options, "validators") # Undefined

\* x != null ? x : null
OrNull(x) == IF x \in {Null, Undefined} THEN Null ELSE x

\* FormBuilder.group(controlsConfig, options) over a config of control
\* objects (_createControl returns them as they are): the group is built at
\* id with {asyncValidators, validators} and no third argument.
FormBuilder_groupOf(st, id, controls, options, t) ==
    LET key == IF options # Null /\ isAbstractControlOptions(options)
               THEN <<"validators", "asyncValidators">>
               ELSE <<"validator", "asyncValidator">>
        validators == IF options = Null THEN Null
                      ELSE OrNull(Property(options, key[1]))
        asyncValidators == IF options = Null THEN Null
                           ELSE OrNull(Property(options, key[2]))
    IN CustomFormControlGroup(st, id, controls,
                              Options(validators, asyncValidators), Undefined, t)

\* -------------------------------------------------------------- the inputs
\* The scalar values a caller passes to a leaf.
LeafValues == {Str(""), Str("a")}

\* The validator lists a control is constructed with (null: none given).
SyncLists == {Null, <<"Accept">>, <<"Blank">>, <<"Required">>, <<"Required", "Reject">>}
AsyncLists == {Null, <<>>, <<"av1">>, <<"av1", "av2">>}

\* What an awaited AsyncValidatorFn promise resolves to.
AsyncOutcomes == {Null, Obj(<< <<"taken", True>> >>)}

\* The values of the shape of the subtree of a control: a scalar for a leaf,
\* {name: ...} over all children for a group, [...] over all for an array.
RECURSIVE ValuesFor(_, _)
RECURSIVE ValueTuples(_, _, _)
ValueTuples(h, kids, i) ==
    IF i > Len(kids) THEN {<<>>}
    ELSE {<<v>> \o rest : v \in ValuesFor(h, kids[i]),
                          rest \in ValueTuples(h, kids, i + 1)}

ValuesFor(h, id) ==
    CASE h[id].kind = "group" ->
            {Obj([i \in 1..Len(vs) |-> <<h[id].controls[i][1], vs[i]>>]) :
                vs \in ValueTuples(h, Children(h[id]), 1)}
      [] h[id].kind = "array" ->
            {Arr(vs) : vs \in ValueTuples(h, Children(h[id]), 1)}
      [] OTHER -> LeafValues

\* The entries of s at the positions of keep, in order.
Pick(s, keep) == SelectSeq([i \in 1..Len(s) |-> IF i \in keep THEN s[i] ELSE <<>>],
                           LAMBDA e : e # <<>>)

\* The arguments tried on setValue of a control: for a group any selection
\* of the entries of a value of its shape, or such a value with the
\* unregistered key x in front or behind; for an array a value of its shape,
\* one cut short or one with an item too many.
InputsFor(h, id) ==
    CASE h[id].kind = "group" ->
            {Obj(Pick(Entries(v), keep)) :
                v \in ValuesFor(h, id), keep \in SUBSET (1..Len(h[id].controls))}
            \cup {Obj(<< <<"x", Str("a")>> >> \o Entries(v)) : v \in ValuesFor(h, id)}
            \cup {Obj(Entries(v) \o << <<"x", Str("a")>> >>) : v \in ValuesFor(h, id)}
      [] h[id].kind = "array" ->
            UNION {{v, Arr(Items(v) \o <<Str("a")>>)}
                   \cup (IF Len(Items(v)) > 0
                         THEN {Arr(SubSeq(Items(v), 1, Len(Items(v)) - 1))}
                         ELSE {}) : v \in ValuesFor(h, id)}
      [] OTHER -> LeafValues

\* The arguments tried on reset of a control: none, reset().
ResetInputsFor(h, id) == {Undefined}

\* The boxed values {value, disabled} a caller passes as formState.
BoxedValues ==
    {Obj(<< <<"value", v>>, <<"disabled", d>> >>) : v \in LeafValues, d \in {True, False}}

\* The formState arguments tried on the constructor and on reset of a leaf:
\* none, null, a raw value and a boxed value.
FormStates == {Undefined, Null} \cup LeafValues \cup BoxedValues

\* The maps a caller passes to setErrors: null, {} and {custom: true}.
ErrorMaps == {Null, Obj(<<>>), Obj(<< <<"custom", True>> >>)}

\* The names a caller registers controls under.
ControlNames == {"a", "b"}

\* The paths tried on get: null, the empty path, a name, a position, a path
\* of two segments, and the strings "a.0", "0" and "".
Paths ==
    {Null, Arr(<<>>), Arr(<<Str("a")>>), Arr(<<Num(0)>>), Arr(<<Str("a"), Num(0)>>),
     Text(<<"a", ".", "0">>), Text(<<"0">>), Text(<<>>)}

\* The sync and async validator arguments tried on a constructor.
ValidatorArgs == {Undefined, Fn("Required"), <<"Required">>}
AsyncValidatorArgs == {Undefined, Fn("av1"), <<"av1">>}

\* The options objects tried on a constructor and on FormBuilder.group.
OptionsObjects ==
    {Options(v, a) : v \in ValidatorArgs, a \in AsyncValidatorArgs}
        \cup {LegacyOptions(Fn("Required"), Fn("av1"))}

\* ---------------------------------------------------------- initial states
EmptyHeap == [id \in Ids |-> Unused]
Start == [h |-> EmptyHeap, r |-> <<>>, threw |-> FALSE]

\* One leaf, as FormBuilder.control(formState, validator, asyncValidator).
LeafScene(formState, validator, asyncValidator) ==
    NewControl(Start, 1, formState, validator, asyncValidator, 0)

\* The form of the demo application, FormBuilder.group({a: ['', Required],
\* b: ''}, {validators}): leaves 1 and 2 under group 3.
GroupScene(validator) ==
    LET s1 == NewControl(Start, 1, Str(""), <<"Required">>, Null, 0)
        s2 == NewControl(s1, 2, Str(""), Null, Null, 0)
    IN NewGroup(s2, 3, << <<"a", 1>>, <<"b", 2>> >>, validator, Null, 0)

\* Leaves 1 and 2 under the array 3.
ArrayScene ==
    LET s1 == NewControl(Start, 1, Str(""), <<"Required">>, Null, 0)
        s2 == NewControl(s1, 2, Str(""), Null, Null, 0)
    IN NewArray(s2, 3, <<1, 2>>, Null, Null, 0)

\* A tree of three levels: leaf 1 under the composite 4 (a group or an
\* array) under the root group 5.
TreeScene(kind) ==
    LET s1 == NewControl(Start, 1, Str(""), <<"Required">>, Null, 0)
        s4 == IF kind = "group"
              THEN NewGroup(s1, 4, << <<"a", 1>> >>, Null, Null, 0)
              ELSE NewArray(s1, 4, <<1>>, Null, Null, 0)
    IN NewGroup(s4, 5, << <<"a", 4>> >>, Null, Null, 0)

\* A tree of three levels with two leaves: leaves 1 and 2 under the
\* composite 4 (a group or an array) under the root group 5.
DirtyScene(kind) ==
    LET s1 == NewControl(Start, 1, Str(""), <<"Required">>, Null, 0)
        s2 == NewControl(s1, 2, Str(""), Null, Null, 0)
        s4 == IF kind = "group"
              THEN NewGroup(s2, 4, << <<"a", 1>>, <<"b", 2>> >>, Null, Null, 0)
              ELSE NewArray(s2, 4, <<1, 2>>, Null, Null, 0)
    IN NewGroup(s4, 5, << <<"a", 4>> >>, Null, Null, 0)

\* Two leaves not yet registered anywhere, the empty group 3 and the empty
\* array 4: new CustomFormControlGroup({}) and new CustomFormControlArray([]).
StructScene ==
    LET s1 == NewControl(Start, 1, Str(""), <<"Required">>, Null, 0)
        s2 == NewControl(s1, 2, Str(""), Null, Null, 0)
        s3 == NewGroup(s2, 3, <<>>, Null, Null, 0)
    IN NewArray(s3, 4, <<>>, Null, Null, 0)

\* new CustomFormControlGroup({}): a group with no control registered.
EmptyGroupScene == NewGroup(Start, 3, <<>>, Null, Null, 0)

\* Controls that are attached: leaf 1 registered as `a` in the group 3 and
\* leaf 2 held by the array 4.
DetachScene ==
    LET s1 == NewControl(Start, 1, Str(""), <<"Required">>, Null, 0)
        s2 == NewControl(s1, 2, Str(""), Null, Null, 0)
        s3 == NewGroup(s2, 3, << <<"a", 1>> >>, Null, Null, 0)
    IN NewArray(s3, 4, <<2>>, Null, Null, 0)

\* A group over a leaf whose async validation is pending and a leaf that
\* fails Required: leaves 1 and 2 under the group 3.
PendingScene(validator) ==
    LET s1 == NewControl(Start, 1, Str("a"), Null, <<"av1">>, 0)
        s2 == NewControl(s1, 2, Str(""), <<"Required">>, Null, 0)
    IN NewGroup(s2, 3, << <<"a", 1>>, <<"b", 2>> >>, validator, Null, 0)

PendingScenes ==
    {PendingScene(sv) : sv \in {Null, <<"Reject">>}} \cup {EmptyGroupScene}

\* One leaf that has no async validator.
SyncLeafScenes ==
    {LeafScene(v, sv, Null) : v \in LeafValues, sv \in {Null, <<"Required">>}}

\* The leaf 1 constructed with (validatorOrOpts, asyncValidator), and the
\* leaf 2 under the group 3 that FormBuilder.group builds with options.
OptionsScene(validatorOrOpts, asyncValidator, options) ==
    LET s1 == CustomFormControl(Start, 1, Str("a"), validatorOrOpts, asyncValidator, 0)
        s2 == NewControl(s1, 2, Str(""), Null, Null, 0)
    IN FormBuilder_groupOf(s2, 3, << <<"b", 2>> >>, options, 0)

OptionsScenes ==
    {OptionsScene(vo, av, o) :
        vo \in ValidatorArgs \cup OptionsObjects, av \in AsyncValidatorArgs,
        o \in {Null} \cup OptionsObjects}

LeafScenes ==
    {LeafScene(v, sv, av) : v \in LeafValues, sv \in SyncLists, av \in AsyncLists}
GroupScenes == {GroupScene(sv) : sv \in {Null, <<"Reject">>}} \cup {ArrayScene}
TreeScenes == {TreeScene(k) : k \in {"group", "array"}} \cup {ArrayScene}

Call(op, id, arg, threw) ==
    [op |-> op, id |-> id, arg |-> arg, threw |-> threw,
     superseded |-> FALSE, finished |-> FALSE]

InitOf(scenes) ==
    /\ \E st \in scenes : heap = st.h /\ rounds = st.r
    /\ clock = 0
    /\ last = Call("new", 0, Null, FALSE)

DirtyScenes == {DirtyScene(k) : k \in {"group", "array"}}
StructScenes == {StructScene}
ArrayScenes == {ArrayScene, EmptyGroupScene}

Init == InitOf(LeafScenes)
InitGroup == InitOf(GroupScenes)
InitTree == InitOf(TreeScenes)
InitDirty == InitOf(DirtyScenes)
InitStruct == InitOf(StructScenes)
InitArray == InitOf(ArrayScenes)
InitDetach == InitOf({DetachScene})
InitLeaf == InitOf(SyncLeafScenes)
InitPending == InitOf(PendingScenes)

InitOptions == InitOf(OptionsScenes)

\* ------------------------------------------------------------------ actions
Here == [h |-> heap, r |-> rounds, threw |-> FALSE]
Live == {id \in Ids : heap[id].kind # "none"}

\* The machine state st is what a public call op(arg) on control id leaves.
Returns(st, op, id, arg) ==
    /\ Len(st.r) <= MaxInflight
    /\ heap' = st.h
    /\ rounds' = st.r
    /\ last' = Call(op, id, arg, st.threw)
    /\ UNCHANGED clock

SetValue ==
    \E id \in Live : \E value \in InputsFor(heap, id) :
        Returns(setValue(Here, id, value, clock), "setValue", id, value)

UpdateValueAndValidity ==
    \E id \in Live :
        Returns(updateValueAndValidity(Here, id, clock),
                "updateValueAndValidity", id, Null)

Disable ==
    \E id \in Live :
        Returns([Here EXCEPT !.h = disable(heap, id)], "disable", id, Null)

Enable ==
    \E id \in Live :
        Returns([Here EXCEPT !.h = enable(heap, id)], "enable", id, Null)

\* The promise awaited by round k resolves to error and the round runs on to
\* its next await or to its end.
Resolve ==
    \E k \in 1..Len(rounds) : \E error \in AsyncOutcomes :
        LET st == ResumeAsyncValidator(Here, k, error)
        IN /\ heap' = st.h
           /\ rounds' = st.r
           /\ last' = [Call("resolve", rounds[k].ctl, error, FALSE)
                         EXCEPT !.superseded = rounds[k].superseded,
                                !.finished = Len(st.r) < Len(rounds)]
           /\ UNCHANGED clock

\* A millisecond passes.  Timestamps are only ever compared between a
\* suspended round and its control, so the clock is advanced only while a
\* round is suspended.
Tick ==
    /\ clock < MaxClock
    /\ rounds # <<>>
    /\ clock' = clock + 1
    /\ UNCHANGED <<heap, rounds, last>>

Reset ==
    \E id \in Live : \E value \in ResetInputsFor(heap, id) :
        Returns(reset(Here, id, value, clock), "reset", id, value)

MarkAsDirty ==
    \E id \in Live :
        Returns([Here EXCEPT !.h = markAsDirty(heap, id)], "markAsDirty", id, Null)

MarkAsPristine ==
    \E id \in Live :
        Returns([Here EXCEPT !.h = markAsPristine(heap, id)],
                "markAsPristine", id, Null)

\* get(path) returns a control or null and changes no field.
GetPath ==
    \E id \in Live : \E path \in Paths :
        Returns(Here, "get", id, path)

Groups == {id \in Live : heap[id].kind = "group"}
Arrays == {id \in Live : heap[id].kind = "array"}
\* The controls a caller passes to a structural mutator.
Leaves == {id \in Live : heap[id].kind = "leaf"}

\* c.updateAllValueAndValidity() on a composite c.
UpdateAllValueAndValidity ==
    \E id \in Groups \cup Arrays :
        Returns(updateAllValueAndValidity(Here, id, clock),
                "updateAllValueAndValidity", id, Null)

\* The rounds still in flight on other objects than the one at id: a control
\* constructed anew is another object, which the rounds of the old do not reach.
RoundsElsewhere(id) == SelectSeq(rounds, LAMBDA rd : rd.ctl # id)

\* x = new CustomFormControl(formState, validatorOrOpts, asyncValidator) for
\* the leaf x at 1.
NewCustomFormControl ==
    \E formState \in LeafValues :
        \E validatorOrOpts \in ValidatorArgs \cup OptionsObjects :
            \E asyncValidator \in AsyncValidatorArgs :
                \E st \in {CustomFormControl([Here EXCEPT !.r = RoundsElsewhere(1)],
                                              1, formState, validatorOrOpts,
                                              asyncValidator, clock)} :
                    Returns(st, "new", 1, <<validatorOrOpts, asyncValidator>>)

\* g = FormBuilder.group({b: control 2}, options) for the group g at 3.
FormBuilderGroup ==
    \E options \in {Null} \cup OptionsObjects :
        \E st \in {FormBuilder_groupOf([Here EXCEPT !.r = RoundsElsewhere(3)], 3,
                                        << <<"b", 2>> >>, options, clock)} :
            Returns(st, "new", 3, <<options, Undefined>>)

\* x = new CustomFormControl(formState, ...) with the validators of the leaf
\* x held before; x keeps the old control when the constructor throws.
Construct ==
    \E formState \in FormStates :
        \E st \in {NewControl(Here, 1, formState, heap[1].validator,
                              heap[1].asyncValidator, clock)} :
            Returns(IF st.threw THEN Throw(Here) ELSE st, "new", 1, formState)

SetErrors ==
    \E id \in Live : \E errors \in ErrorMaps :
        Returns([Here EXCEPT !.h = setErrors(heap, id, errors)],
                "setErrors", id, errors)

\* reset(formState) on a leaf.
Leaf_Reset ==
    \E id \in Leaves : \E formState \in FormStates :
        Returns(reset(Here, id, formState, clock), "reset", id, formState)

RegisterControl ==
    \E id \in Groups : \E name \in ControlNames : \E control \in Leaves :
        Returns([Here EXCEPT !.h = registerControl(heap, id, name, control)],
                "registerControl", id, <<name, control>>)

AddControl ==
    \E id \in Groups : \E name \in ControlNames : \E control \in Leaves :
        Returns(addControl(Here, id, name, control, clock),
                "addControl", id, <<name, control>>)

Group_SetControl ==
    \E id \in Groups : \E name \in ControlNames : \E control \in Leaves :
        Returns(Group_setControl(Here, id, name, control, clock),
                "setControl", id, <<name, control>>)

RemoveControl ==
    \E id \in Groups : \E name \in ControlNames :
        Returns(removeControl(Here, id, name, clock), "removeControl", id, name)

Push ==
    \E id \in Arrays : \E control \in Leaves :
        /\ Len(heap[id].controls) < MaxLength
        /\ Returns(push(Here, id, control, clock), "push", id, control)

Insert ==
    \E id \in Arrays : \E index \in 0..MaxLength : \E control \in Leaves :
        /\ Len(heap[id].controls) < MaxLength
        /\ Returns(insert(Here, id, index, control, clock),
                   "insert", id, <<index, control>>)

Array_RemoveAt ==
    \E id \in Arrays : \E index \in 0..MaxLength :
        Returns(removeAt(Here, id, index, clock), "removeAt", id, index)

Array_SetControl ==
    \E id \in Arrays : \E index \in 0..(MaxLength - 1) : \E control \in Leaves :
        Returns(Array_setControl(Here, id, index, control, clock),
                "setControl", id, <<index, control>>)

Clear ==
    \E id \in Arrays : Returns(clear(Here, id, clock), "clear", id, Null)

Next ==
    \/ SetValue
    \/ UpdateValueAndValidity
    \/ Disable
    \/ Enable
    \/ Resolve
    \/ Tick

\* The calls alone: no control of the group, array and tree scenes has an async
\* validator, so nothing is ever suspended there.
NextSync ==
    \/ SetValue
    \/ UpdateValueAndValidity
    \/ Disable
    \/ Enable

\* The calls that touch the pristine flag or the status and leave the values
\* of the leaves to reset().
NextDirty ==
    \/ Reset
    \/ MarkAsDirty
    \/ MarkAsPristine
    \/ Disable
    \/ Enable

\* The structural mutators, with get on what they build.
NextStruct ==
    \/ GetPath
    \/ RegisterControl
    \/ AddControl
    \/ Group_SetControl
    \/ RemoveControl
    \/ Push
    \/ Insert
    \/ Array_RemoveAt
    \/ Array_SetControl
    \/ Clear

\* setValue, get and clear on an array that is emptied, and on an empty group.
NextArray ==
    \/ SetValue
    \/ GetPath
    \/ Disable
    \/ Enable
    \/ Clear

\* The mutators that detach a control, with the calls that walk up the parent
\* reference of a control.
NextDetach ==
    \/ MarkAsDirty
    \/ MarkAsPristine
    \/ Group_SetControl
    \/ RemoveControl
    \/ Array_RemoveAt
    \/ Array_SetControl
    \/ Clear

\* The calls that leave stale state in a tree, and the pass over the tree.
NextAll ==
    \/ SetValue
    \/ Disable
    \/ Enable
    \/ UpdateAllValueAndValidity

\* The constructor and reset of a leaf, between the calls that change what
\* reset has to undo.
NextLeaf ==
    \/ Construct
    \/ Leaf_Reset
    \/ SetErrors
    \/ SetValue
    \/ MarkAsDirty
    \/ Disable
    \/ Enable

\* get on a tree whose controls are disabled and enabled.
NextPath ==
    \/ GetPath
    \/ Disable
    \/ Enable

\* Construction with validator arguments and options objects, and the
\* validation passes that launch the async validators.
NextOptions ==
    \/ NewCustomFormControl
    \/ FormBuilderGroup
    \/ UpdateValueAndValidity
    \/ Resolve

\* The validation pass of a group next to the async validation of a child.
NextPending ==
    \/ UpdateValueAndValidity
    \/ Disable
    \/ Enable
    \/ Resolve

\* One leaf, with its async validation.
Spec == Init /\ [][Next]_vars
\* A group or an array of two leaves.
SpecGroup == InitGroup /\ [][NextSync]_vars
\* A tree of three levels, or an array of two leaves.
SpecTree == InitTree /\ [][NextSync]_vars
\* A tree of three levels whose composites are re-validated from the root.
SpecAll == InitTree /\ [][NextAll]_vars
\* A tree of three levels with two leaves, for the dirty and pristine flags.
SpecDirty == InitDirty /\ [][NextDirty]_vars
\* An empty group, an empty array and two leaves to put into them.
SpecStruct == InitStruct /\ [][NextStruct]_vars
\* An array of two leaves that clear() empties, or a group with no control.
SpecArray == InitArray /\ [][NextArray]_vars
\* A group and an array that hold one leaf each and lose it.
SpecDetach == InitDetach /\ [][NextDetach]_vars
\* One leaf with sync validators only, constructed and reset with every formState.
SpecLeaf == InitLeaf /\ [][NextLeaf]_vars
\* A tree of three levels, or an array of two leaves, looked up by path.
SpecPath == InitTree /\ [][NextPath]_vars
\* A group with a pending child and an invalid child, or a group with no child.
SpecPending == InitPending /\ [][NextPending]_vars
\* A leaf and a group constructed with options objects.
SpecOptions == InitOptions /\ [][NextOptions]_vars

\* =================================================================== claims
Calls == {"setValue", "updateValueAndValidity"}
Target == heap[last.id]

\* C1: right after L.setValue(v) on a leaf L, L.value is v and L.dirty is
\* true, whatever the status of L was (DISABLED included).
C1_SetValueStores ==
    (last.op = "setValue" /\ Target.kind = "leaf")
        => (Target.value = last.arg /\ dirty(Target))

\* A disabled leaf that setValue("a") has just been called on.
C1_Witness ==
    /\ last.op = "setValue"
    /\ Target.kind = "leaf"
    /\ disabled(Target)
    /\ last.arg = Str("a")

\* C2: the resolution of an async validator of a round that a later round
\* on the same control has superseded changes neither the errors nor the
\* status of the control.
C2_SupersededRoundIsSilent ==
    [][(last'.op = "resolve" /\ last'.superseded)
          => /\ heap'[last'.id].errors = heap[last'.id].errors
             /\ heap'[last'.id].status = heap[last'.id].status]_vars

\* A superseded round whose validator has just resolved to an error, the
\* round having been launched at an earlier clock value than the last one.
C2_Witness ==
    /\ last.op = "resolve"
    /\ last.superseded
    /\ last.finished
    /\ last.arg # Null
    /\ Target.asyncValidatorFiredTime > 0

\* C3: a round that is not superseded applies its result once its validators
\* have resolved, so when such a round has ended the control is no longer
\* PENDING.
C3_UnsupersededRoundSettles ==
    (last.op = "resolve" /\ ~last.superseded /\ last.finished)
        => Target.status # PENDING

\* Some synchronous validator of c returns a non-null error map for c.
SomeValidatorFailed(c) ==
    /\ c.validator # Null
    /\ \E i \in 1..Len(c.validator) : ValidatorFn(c.validator[i], c) # Null

NoAsyncValidators(c) == c.asyncValidator = Null \/ c.asyncValidator = <<>>

\* C4: after setValue or updateValueAndValidity on an enabled leaf with no
\* async validators, the status is INVALID if a synchronous validator
\* returned a non-null error map and VALID if all of them returned null.
C4_SyncStatus ==
    (last.op \in Calls /\ Target.kind = "leaf" /\ enabled(Target)
        /\ NoAsyncValidators(Target) /\ ~last.threw)
        => Target.status = IF SomeValidatorFailed(Target) THEN INVALID ELSE VALID

\* Some synchronous validator of c returns a map with a truthy payload
\* under code.
Reported(c, code) ==
    /\ c.validator # Null
    /\ \E i \in 1..Len(c.validator) :
          /\ ValidatorFn(c.validator[i], c) # Null
          /\ Truthy(Get(ValidatorFn(c.validator[i], c), code))

ErrorCodes == {"required", "rejected"}

\* C5: after a validation pass of a leaf, hasError(code) is true and
\* getError(code) is the payload for every code a synchronous validator
\* reported, and hasError(code) is false for a code none reported.
C5_ErrorLookup ==
    (last.op \in Calls /\ Target.kind = "leaf" /\ enabled(Target)
        /\ Target.asyncValidator = Null)
        => \A code \in ErrorCodes :
              /\ Reported(Target, code) =>
                    (hasError(Target, code) /\ getError(Target, code) = True)
              /\ ~Reported(Target, code) => ~hasError(Target, code)

\* The groups whose children are exactly a and b.
GroupsOfAB == {g \in Live : heap[g].kind = "group" /\ Names(heap[g]) = <<"a", "b">>}
ChildA(g) == heap[ControlNamed(heap[g], "a")]
ChildB(g) == heap[ControlNamed(heap[g], "b")]
BothEnabledAndValid(g) == valid(ChildA(g)) /\ valid(ChildB(g))
ValueOfAB(g) == Obj(<< <<"a", ChildA(g).value>>, <<"b", ChildB(g).value>> >>)

HoldsEveryChild(h, id) ==
    IF h[id].kind = "group"
    THEN h[id].value = Obj([i \in 1..Len(h[id].controls) |->
                               <<h[id].controls[i][1], h[h[id].controls[i][2]].value>>])
    ELSE h[id].value = Arr([i \in 1..Len(h[id].controls) |-> h[h[id].controls[i]].value])

\* C7: after disable() on a group or an array, the composite and every
\* descendant are DISABLED, and its value holds an entry for every child.
C7_DisableCascades ==
    (last.op = "disable" /\ IsCollection(Target))
        => /\ disabled(Target)
           /\ \A d \in Descendants(heap, last.id) : disabled(heap[d])
           /\ HoldsEveryChild(heap, last.id)

\* disable() has just been called on the root of a tree of three levels.
C7_Witness ==
    /\ last.op = "disable"
    /\ IsCollection(Target)
    /\ \E d \in Descendants(heap, last.id) :
          IsCollection(heap[d]) /\ Descendants(heap, d) # {}

\* C8: after enable() on a composite, the composite and all its descendants
\* are enabled.
C8_EnableCascades ==
    (last.op = "enable" /\ IsCollection(Target))
        => /\ enabled(Target)
           /\ \A d \in Descendants(heap, last.id) : enabled(heap[d])

\* Some key of the map names no child of group g.
HasUnregisteredKey(h, g, map) ==
    \E i \in 1..Len(Keys(map)) : ControlNamed(h[g], Keys(map)[i]) = 0

\* C9: setValue(map) on a group throws whenever map holds a key with no
\* registered child, and when it throws the value and the status of the
\* group itself are what they were before the call.
C9_ThrowsAndKeepsGroup ==
    [][(last'.op = "setValue" /\ heap[last'.id].kind = "group")
          => /\ HasUnregisteredKey(heap, last'.id, last'.arg) => last'.threw
             /\ last'.threw =>
                   /\ heap'[last'.id].value = heap[last'.id].value
                   /\ heap'[last'.id].status = heap[last'.id].status]_vars

\* setValue({a: "a", b: ..., x: ...}) has thrown at x, after child a had
\* been given its new value.
C9_Witness ==
    /\ last.op = "setValue"
    /\ Target.kind = "group"
    /\ last.threw
    /\ HasKey(last.arg, "x")
    /\ Keys(last.arg)[1] = "a"
    /\ heap[ControlNamed(Target, "a")].value = Str("a")
    /\ Get(Target.value, "a") = Str("")

\* C10, as stated: setValue(map) on a group does not throw when every key of
\* map names a registered child.
C10_OnlyUnregisteredKeysFail ==
    (last.op = "setValue" /\ Target.kind = "group"
        /\ ~HasUnregisteredKey(heap, last.id, last.arg))
        => ~last.threw

\* The map gives a value to every child of group g and has no other key.
CoversExactly(h, g, map) ==
    /\ ~HasUnregisteredKey(h, g, map)
    /\ \A i \in 1..Len(h[g].controls) : HasKey(map, h[g].controls[i][1])

\* C10, amended: when map holds a value for every registered child of the
\* group and no other key, setValue(map) does not throw, every child holds
\* its mapped value afterwards (getRawValue() is map) and the group has been
\* re-validated: its value and status are those computed from its children.
C10_FullMapIsApplied ==
    (last.op = "setValue" /\ Target.kind = "group"
        /\ CoversExactly(heap, last.id, last.arg))
        => /\ ~last.threw
           /\ \A i \in 1..Len(Target.controls) :
                 Get(getRawValue(heap, last.id), Target.controls[i][1])
                     = Get(last.arg, Target.controls[i][1])
           /\ Target.value = _reduceValue(heap, last.id)
           /\ Target.status = _calculateStatus(heap, last.id)

\* setValue({a: "a", b: ""}) has returned on the group of a and b.
C10_Witness ==
    /\ last.op = "setValue"
    /\ Target.kind = "group"
    /\ last.arg = Obj(<< <<"a", Str("a")>>, <<"b", Str("")>> >>)
    /\ ~last.threw

\* at(i) of an array, i counted from 0.
At(h, id, i) == h[h[id].controls[i + 1]]

\* values[i] is stored in at(i) for every index i of values.
StoredAt(h, id, values) ==
    \A i \in 0..(Len(Items(values)) - 1) :
        /\ i < Len(h[id].controls)
        /\ At(h, id, i).value = ReadAt(values, i)

\* C11: right after array.setValue(values): the call threw exactly when
\* values is longer than the array, and when it did not throw (values shorter
\* included) at(i).value is values[i] for every index i of values.
C11_OnlyLongerValuesFail ==
    (last.op = "setValue" /\ Target.kind = "array")
        => /\ last.threw <=> Len(Items(last.arg)) > Len(Target.controls)
           /\ ~last.threw => StoredAt(heap, last.id, last.arg)

\* C11, amended: right after array.setValue(values), values a sequence of
\* defined entries: the call threw exactly when the length of values differs
\* from the number of controls, and when it did not throw at(i).value is
\* values[i] for every index i.
C11_ExactLengthIsApplied ==
    (last.op = "setValue" /\ Target.kind = "array")
        => /\ last.threw <=> Len(Items(last.arg)) # Len(Target.controls)
           /\ ~last.threw => StoredAt(heap, last.id, last.arg)

\* setValue(["a", "a"]) has returned on an array of two controls.
C11_Witness ==
    /\ last.op = "setValue"
    /\ Target.kind = "array"
    /\ Len(Target.controls) = 2
    /\ last.arg = Arr(<<Str("a"), Str("a")>>)
    /\ ~last.threw

\* A composite with no registered children.
EmptyComposite(c) == IsCollection(c) /\ Len(c.controls) = 0

\* C12: right after setValue (any argument) or get(path) on a composite with
\* no registered children, the call has thrown.
C12_EmptyCompositeThrows ==
    (last.op \in {"setValue", "get"} /\ EmptyComposite(Target)) => last.threw

\* The strict ancestors of a control, up to the root.
RECURSIVE Ancestors(_, _)
Ancestors(h, id) ==
    IF h[id].parent = NoParent THEN {}
    ELSE {h[id].parent} \cup Ancestors(h, h[id].parent)

\* No control of the tree other than id and its ancestors is dirty.
NoOtherDirty(h, id) ==
    \A c \in DOMAIN h :
        (h[c].kind # "none" /\ c # id /\ c \notin Ancestors(h, id)) => ~dirty(h[c])

\* C13: right after markAsDirty() on a leaf every strict ancestor of the leaf
\* is dirty; right after markAsPristine() on a leaf, when no control other
\* than the leaf's ancestors is dirty, the leaf and every strict ancestor of it
\* are pristine.
C13_DirtyPropagation ==
    /\ (last.op = "markAsDirty" /\ Target.kind = "leaf")
         => /\ dirty(Target)
            /\ \A a \in Ancestors(heap, last.id) : dirty(heap[a])
    /\ (last.op = "markAsPristine" /\ Target.kind = "leaf"
            /\ NoOtherDirty(heap, last.id))
         => /\ ~dirty(Target)
            /\ \A a \in Ancestors(heap, last.id) : ~dirty(heap[a])

\* markAsPristine() has returned on a leaf two levels below the root, while
\* its sibling is not dirty.
C13_Witness ==
    /\ last.op = "markAsPristine"
    /\ Target.kind = "leaf"
    /\ Cardinality(Ancestors(heap, last.id)) = 2
    /\ NoOtherDirty(heap, last.id)

\* C14: in every reachable state a composite is pristine if and only if none
\* of its descendants, enabled or disabled and at any depth, is dirty.
C14_PristineIffNoDirtyDescendant ==
    \A id \in Live :
        IsCollection(heap[id])
            => (heap[id].pristine
                  <=> \A d \in Descendants(heap, id) : ~dirty(heap[d]))

\* Every control reachable below id is disabled: id itself when it is a leaf.
AllBelowDisabled(h, id) ==
    IF IsCollection(h[id])
    THEN \A d \in Descendants(h, id) : disabled(h[d])
    ELSE disabled(h[id])

\* C15: in every reachable state the status of a control is DISABLED if and
\* only if every control reachable below it (itself, for a leaf) is disabled.
C15_DisabledIffAllBelow ==
    \A id \in Live : disabled(heap[id]) <=> AllBelowDisabled(heap, id)

\* Every direct child of the composite id is disabled.
AllChildrenDisabled(h, id) ==
    \A i \in 1..Len(Children(h[id])) : disabled(h[Children(h[id])[i]])

\* C15, amended: right after a composite's own validation pass
\* (updateValueAndValidity(), or a setValue that returned) the status of a
\* composite with at least one child is DISABLED if and only if every one of
\* its direct children is disabled.
C15_AfterOwnPass ==
    (last.op \in Calls /\ ~last.threw /\ IsCollection(Target)
        /\ Len(Target.controls) > 0)
        => (disabled(Target) <=> AllChildrenDisabled(heap, last.id))

\* updateValueAndValidity() has returned on a composite of two children
\* that are both disabled.
C15_Witness ==
    /\ last.op = "updateValueAndValidity"
    /\ IsCollection(Target)
    /\ Len(Target.controls) = 2
    /\ AllChildrenDisabled(heap, last.id)

\* The control has errors of its own: errors is neither null nor undefined.
HasOwnErrors(c) == c.errors \notin {Null, Undefined}

\* C16: in every state between public operations, a control that is enabled
\* and has errors of its own has the status INVALID.
C16_OwnErrorsMeanInvalid ==
    \A id \in Live :
        (enabled(heap[id]) /\ HasOwnErrors(heap[id])) => invalid(heap[id])

\* A control with an async validator list that is enabled and holds an error
\* map after a setValue.
C16_Witness ==
    /\ last.op = "setValue"
    /\ enabled(Target)
    /\ HasOwnErrors(Target)
    /\ Target.asyncValidator # Null

\* C17: right after setValue(values) on an array of n leaves, values of n
\* defined entries, the call has not thrown and getRawValue() is values;
\* right after clear() the array has length 0 and its value is [].
C17_ArrayScenario ==
    /\ (last.op = "setValue" /\ Target.kind = "array"
            /\ Len(Items(last.arg)) = Len(Target.controls))
         => /\ ~last.threw
            /\ getRawValue(heap, last.id) = last.arg
    /\ (last.op = "clear" /\ Target.kind = "array")
         => /\ Len(Target.controls) = 0
            /\ Target.value = Arr(<<>>)

\* clear() has returned on an array whose two leaves had been given values
\* by setValue.
C17_Witness ==
    /\ last.op = "clear"
    /\ Target.kind = "array"
    /\ heap[1].value = Str("a")
    /\ dirty(heap[2])

\* The tree FormBuilder builds from the raw value of the composite id, on a
\* heap of its own, and the identity of its root.
Rebuilt(h, id) ==
    IF h[id].kind = "group"
    THEN FormBuilder_group(Start, getRawValue(h, id), 0)
    ELSE FormBuilder_array(Start, getRawValue(h, id), 0)

RebuiltRoot(h, id) == Len(h[id].controls) + 1

PlainLeaves(h, id) ==
    \A d \in Descendants(h, id) :
        h[d].kind = "leaf"
            => \/ h[d].value \in {Null, Undefined}
               \/ (~IsArr(h[d].value) /\ ~_isBoxedValue(h[d].value))

C19_StatusKeepsRawValue ==
    [][last'.op \in {"disable", "enable"}
        => \A id \in Live :
              IsCollection(heap[id])
                  => getRawValue(heap', id) = getRawValue(heap, id)]_vars

\* disable() has returned on a leaf that holds "a" two levels below the root.
C19_Witness ==
    /\ last.op = "disable"
    /\ Target.kind = "leaf"
    /\ Target.value = Str("a")
    /\ Cardinality(Ancestors(heap, last.id)) = 2
    /\ getRawValue(heap, Target.parent) \in
          {Obj(<< <<"a", Str("a")>> >>), Arr(<<Str("a")>>)}

\* The composites that hold the control c in their controls collection.
Holders(h, c) ==
    {g \in DOMAIN h :
        IsCollection(h[g]) /\ \E i \in 1..Len(Children(h[g])) : Children(h[g])[i] = c}

\* C20: after any sequence of structural operations every control held in
\* the controls collection of a composite has that composite as its parent,
\* and no control is held by two composites.
C20_Ownership ==
    \A c \in Live :
        /\ \A g \in Holders(heap, c) : heap[c].parent = g
        /\ Cardinality(Holders(heap, c)) <= 1

\* C21: a control that no composite holds has no parent reference, and
\* markAsDirty() or markAsPristine() on such a control leaves the pristine
\* flag of every control that is not below it as it was.
C21_DetachedHasNoParent ==
    /\ [](\A c \in Live : Holders(heap, c) = {} => heap[c].parent = NoParent)
    /\ [][(last'.op \in {"markAsDirty", "markAsPristine"}
            /\ Holders(heap, last'.id) = {})
           => \A g \in Live \ ({last'.id} \cup Descendants(heap, last'.id)) :
                 heap'[g].pristine = heap[g].pristine]_vars

\* C22: constructing a leaf with a boxed value {value: v, disabled: d}
\* completes without error and yields a leaf of value v that is disabled when
\* d is true and enabled when d is false; constructing with a raw value v
\* yields an enabled leaf of value v.
C22_Construction ==
    (last.op = "new" /\ last.id # 0)
        => /\ ~last.threw
           /\ IF last.arg \in BoxedValues
              THEN /\ Target.value = Get(last.arg, "value")
                   /\ disabled(Target) <=> Get(last.arg, "disabled") = True
              ELSE /\ Target.value = Default(last.arg, Null)
                   /\ enabled(Target)

\* C23: after reset(v) on a leaf, v a raw value or omitted, the value of the
\* leaf is v (null when omitted), the leaf is pristine and its pending-change
\* flag is false.
C23_ResetStoresRawValue ==
    (last.op = "reset" /\ Target.kind = "leaf" /\ last.arg \notin BoxedValues)
        => /\ ~last.threw
           /\ Target.value = Default(last.arg, Null)
           /\ Target.pristine
           /\ Target.pendingChange = False

\* reset("a") on a leaf that held "" and failed Required: the status is the
\* one of the value the leaf had before.
C23_Witness ==
    /\ last.op = "reset"
    /\ last.arg = Str("a")
    /\ Target.kind = "leaf"
    /\ Target.value = Str("a")
    /\ Target.pristine
    /\ invalid(Target)

\* C24: registerControl(name, control) on a group whose name is occupied
\* returns the control registered under name and changes nothing (the
\* controls mapping, the parent of the existing child and the parent of the
\* control passed); on a free name it adds the control under name and makes
\* the group the parent of the control.
C24_RegisterControl ==
    [][last'.op = "registerControl"
        => LET g == last'.id
               name == last'.arg[1]
               control == last'.arg[2]
               existing == ControlNamed(heap[g], name)
           IN IF existing # 0
              THEN /\ registerControl_return(heap, g, name, control) = existing
                   /\ heap' = heap
              ELSE /\ registerControl_return(heap, g, name, control) = control
                   /\ heap'[g].controls = Append(heap[g].controls, <<name, control>>)
                   /\ heap'[control].parent = g]_vars

\* registerControl('a', y) on a group where x is registered as a: x stays, and
\* y is not made a child of the group.
C24_Witness ==
    /\ last.op = "registerControl"
    /\ ControlNamed(Target, last.arg[1]) \notin {0, last.arg[2]}
    /\ heap[last.arg[2]].parent # last.id
    /\ heap[ControlNamed(Target, last.arg[1])].parent = last.id

\* The segments of a path: the items of a segment sequence, the parts between
\* the dots of a string.
SegmentsOf(path) ==
    IF IsArr(path) THEN Items(path) ELSE split(path[2], ".", 1, <<>>)

\* The composite p holds c under the name, or at the position, name.
HeldAt(h, p, name, c) ==
    \/ /\ h[p].kind = "group"
       /\ \E i \in 1..Len(h[p].controls) :
              h[p].controls[i] = <<PropertyKey(name), c>>
    \/ /\ h[p].kind = "array"
       /\ \E i \in 1..Len(h[p].controls) :
              h[p].controls[i] = c /\ ArrayIndex(name) = i - 1

\* The controls reached from v along the segments i, i + 1, ... of segs.
RECURSIVE Reached(_, _, _, _)
Reached(h, v, segs, i) ==
    IF i > Len(segs) THEN {v}
    ELSE UNION {Reached(h, c, segs, i + 1) :
                    c \in {k \in DOMAIN h : HeldAt(h, v, segs[i], k)}}

\* C25: get(path), path a dotted string or a sequence of at least one
\* segment, returns the descendant reached by indexing groups by name and
\* arrays by position segment after segment, whatever the status of the
\* controls on the way, and null when a segment names no child or a leaf is
\* reached before the last segment.
C25_GetResolvesPath ==
    (last.op = "get" /\ last.arg # Null /\ Len(SegmentsOf(last.arg)) > 0)
        => LET r == get(heap, last.id, last.arg)
               reached == Reached(heap, last.id, SegmentsOf(last.arg), 1)
           IN IF r = 0 THEN reached = {} ELSE reached = {r}

\* get("a.0") on the root of a tree that was disabled returns the disabled
\* leaf two levels down.
C25_Witness ==
    /\ last.op = "get"
    /\ last.arg = Text(<<"a", ".", "0">>)
    /\ get(heap, last.id, last.arg) # 0
    /\ heap[get(heap, last.id, last.arg)].kind = "leaf"
    /\ disabled(heap[get(heap, last.id, last.arg)])
    /\ disabled(Target)

\* C26: in every reachable state the errors of a control are null or a map
\* with at least one entry.
C26_ErrorsNormalized ==
    \A c \in Live :
        \/ heap[c].errors = Null
        \/ IsObj(heap[c].errors) /\ Len(Entries(heap[c].errors)) > 0

\* C27: a call of updateValueAndValidity, disable, enable or setValue on a
\* control advances the generation marker of the control: no async round of
\* the control that was in flight before the call carries the marker the
\* control has after it.
C27_CallAdvancesMarker ==
    [][(last'.op \in {"updateValueAndValidity", "disable", "enable", "setValue"}
        /\ clock' = clock)
        => \A k \in 1..Len(rounds) :
              rounds[k].ctl = last'.id
                  => heap'[last'.id].asyncValidatorFiredTime # rounds[k].nowDate]_vars

\* C28: within one validation pass the sync validators have all returned
\* before the first async validator is invoked, and the async validators of
\* a round are invoked one after the other: a call starts at most one round,
\* at its first validator and with the errors of the sync validators already
\* stored; a round awaits one validator of its list at a time and moves to
\* the next one only when the promise it awaits resolves.
C28_ValidatorOrder ==
    /\ [](\A k \in 1..Len(rounds) : rounds[k].i \in 1..Len(rounds[k].vs))
    /\ [][/\ Len(rounds') <= Len(rounds) + 1
          /\ Len(rounds') = Len(rounds) + 1
                => LET n == rounds'[Len(rounds')]
                   IN /\ n.i = 1
                      /\ last'.op \in {"setValue", "updateValueAndValidity"}
                      /\ n.ctl = last'.id
                      /\ n.vs = heap'[n.ctl].asyncValidator
                      /\ heap'[n.ctl].errors = _runValidator(heap'[n.ctl])
          /\ Len(rounds') >= Len(rounds)
                => \A k \in 1..Len(rounds) :
                      /\ rounds'[k].i \in {rounds[k].i, rounds[k].i + 1}
                      /\ rounds'[k].i = rounds[k].i + 1
                            => last'.op = "resolve" /\ last'.id = rounds[k].ctl
          /\ Len(rounds') < Len(rounds)
                => /\ last'.op = "resolve"
                   /\ \E k \in 1..Len(rounds) : rounds' = RemoveAt(rounds, k)]_vars

\* A round that has moved on to the second validator of its list, the first
\* having resolved.
C28_Witness ==
    /\ last.op = "resolve"
    /\ ~last.finished
    /\ \E k \in 1..Len(rounds) :
          /\ rounds[k].ctl = last.id
          /\ rounds[k].i = 2
          /\ Len(rounds[k].vs) = 2
          /\ heap[last.id].validator = <<"Required">>

\* The key-wise union of the maps the validators vs[i..] return for c, on top
\* of acc; a validator that returns null adds nothing.
RECURSIVE MergeLoop(_, _, _, _)
MergeLoop(vs, i, c, acc) ==
    IF i > Len(vs) THEN acc
    ELSE LET error == ValidatorFn(vs[i], c)
             RECURSIVE PutAll(_, _, _)
             PutAll(o, es, j) ==
                 IF j > Len(es) THEN o ELSE PutAll(Put(o, es[j][1], es[j][2]), es, j + 1)
         IN MergeLoop(vs, i + 1, c,
                      IF error = Null THEN acc ELSE PutAll(acc, Entries(error), 1))

MergedErrors(c) ==
    IF c.validator = Null THEN Null
    ELSE LET merged == MergeLoop(c.validator, 1, c, Obj(<<>>))
         IN IF Len(Entries(merged)) = 0 THEN Null ELSE merged

\* C29: after updateValueAndValidity() on an enabled control, errors is the
\* key-wise union of the maps its sync validators returned, null when every
\* one of them returned null.
C29_ErrorsAreMerge ==
    (last.op = "updateValueAndValidity" /\ enabled(Target))
        => Target.errors = MergedErrors(Target)

\* The status the precedence of C30 gives the composite id.
Precedence(h, id) ==
    LET kids == {Children(h[id])[i] : i \in 1..Len(Children(h[id]))}
        on == {k \in kids : enabled(h[k])}
    IN IF \A k \in kids : disabled(h[k]) THEN DISABLED
       ELSE IF h[id].errors # Null THEN INVALID
       ELSE IF \E k \in on : pending(h[k]) THEN PENDING
       ELSE IF \E k \in on : invalid(h[k]) THEN INVALID
       ELSE VALID

\* C30: right after updateValueAndValidity() has returned on a composite
\* with no async validators its status is DISABLED if all its children are
\* disabled, else INVALID if its own errors are non-null, else PENDING if an
\* enabled child is PENDING, else INVALID if an enabled child is INVALID,
\* else VALID.
C30_AnyComposite ==
    (last.op = "updateValueAndValidity" /\ IsCollection(Target)
        /\ Target.asyncValidator = Null)
        => Target.status = Precedence(heap, last.id)

\* C30, amended: the same for a composite that has at least one child.
C30_StatusPrecedence ==
    (last.op = "updateValueAndValidity" /\ IsCollection(Target)
        /\ Target.asyncValidator = Null /\ Len(Target.controls) > 0)
        => Target.status = Precedence(heap, last.id)

\* updateValueAndValidity() on a group with no errors of its own, an enabled
\* PENDING child and an enabled INVALID child: the group is PENDING.
C30_Witness ==
    /\ last.op = "updateValueAndValidity"
    /\ Target.kind = "group"
    /\ Target.errors = Null
    /\ \E i \in 1..Len(Target.controls) : pending(heap[Target.controls[i][2]])
    /\ \E i \in 1..Len(Target.controls) : invalid(heap[Target.controls[i][2]])
    /\ pending(Target)

\* The status a leaf has after the sync validators of a pass: c is the leaf as
\* the pass leaves it, was the leaf as the pass found it.
StatusAfterSync(was, c) ==
    IF disabled(was) THEN DISABLED
    ELSE IF _runValidator(c) # Null THEN INVALID
    ELSE VALID

\* C31: a validation pass (updateValueAndValidity, or the one setValue ends
\* with) on a leaf with async validators launches them exactly when the
\* status computed after the sync validators is VALID or PENDING; a pass on a
\* disabled leaf, or one in which a sync validator reported, launches none.
C31_AsyncLaunch ==
    [][(last'.op \in Calls /\ clock' = clock
          /\ ~NoAsyncValidators(heap[last'.id]))
        => LET launched == Len(rounds') = Len(rounds) + 1
               after == StatusAfterSync(heap[last'.id], heap'[last'.id])
           IN /\ Len(rounds') \in {Len(rounds), Len(rounds) + 1}
              /\ launched <=> after \in {VALID, PENDING}
              /\ launched => rounds'[Len(rounds')].ctl = last'.id]_vars

\* A pass on a leaf with async validators that failed Required: the leaf is
\* INVALID and no round was launched.
C31_Witness ==
    /\ last.op = "updateValueAndValidity"
    /\ ~NoAsyncValidators(Target)
    /\ invalid(Target)
    /\ Target.errors # Null
    /\ rounds = <<>>

\* The positions of the children of the composite id that its aggregate value
\* covers: all when id is disabled, else those of the enabled children.
Covered(h, id) ==
    {i \in 1..Len(Children(h[id])) :
        disabled(h[id]) \/ enabled(h[Children(h[id])[i]])}

\* C32: right after updateValueAndValidity(), disable() or enable() on a
\* composite its aggregate value holds exactly the values of its enabled
\* children when it is enabled and those of all children when it is disabled,
\* under their names for a group and in the order of the children for an array.
C32_AggregateValue ==
    (last.op \in {"updateValueAndValidity", "disable", "enable"}
        /\ IsCollection(Target))
        => LET kids == Children(Target)
               all == [i \in 1..Len(kids) |->
                         IF Target.kind = "group"
                         THEN <<Target.controls[i][1], heap[kids[i]].value>>
                         ELSE heap[kids[i]].value]
               kept == Pick([i \in 1..Len(kids) |-> <<i, all[i]>>],
                            Covered(heap, last.id))
               values == [j \in 1..Len(kept) |-> kept[j][2]]
           IN Target.value = IF Target.kind = "group" THEN Obj(values) ELSE Arr(values)

\* updateValueAndValidity() on an enabled array of two children, the first
\* of them disabled: the value holds the value of the second alone.
C32_Witness ==
    /\ last.op = "updateValueAndValidity"
    /\ Target.kind = "array"
    /\ enabled(Target)
    /\ Len(Target.controls) = 2
    /\ disabled(heap[Target.controls[1]])
    /\ enabled(heap[Target.controls[2]])
    /\ Target.value = Arr(<<heap[Target.controls[2]].value>>)

\* C33: setErrors(e) stores e as the errors of the control and recomputes the
\* status without running any validator: an enabled leaf is INVALID after
\* setErrors of a non-null map and VALID after setErrors(null), whatever its
\* validators would return, and no async round is started.
C33_SetErrors ==
    [][last'.op = "setErrors"
        => /\ heap'[last'.id].errors = last'.arg
           /\ rounds' = rounds
           /\ heap' = [heap EXCEPT ![last'.id].errors = last'.arg,
                                   ![last'.id].status = heap'[last'.id].status]
           /\ (heap[last'.id].kind = "leaf" /\ enabled(heap[last'.id]))
                 => heap'[last'.id].status =
                       IF last'.arg # Null THEN INVALID ELSE VALID]_vars

\* setErrors(null) on an enabled leaf whose value "" fails Required: the
\* leaf is VALID.
C33_Witness ==
    /\ last.op = "setErrors"
    /\ last.arg = Null
    /\ Target.kind = "leaf"
    /\ Target.validator = <<"Required">>
    /\ Target.value = Str("")
    /\ valid(Target)

\* C34: when the promise awaited by a superseded round resolves, the round
\* ends there: it awaits no further validator of its list and changes no
\* field of any control.
C34_SupersededRoundEnds ==
    [][(last'.op = "resolve" /\ last'.superseded /\ clock' = clock)
        => /\ last'.finished
           /\ heap' = heap]_vars

\* C35: every launch of an async round on a control records a marker that
\* differs from the marker of every earlier round on the control: two rounds
\* of a control in flight never carry the same marker, and a round that a
\* later launch superseded never carries the marker the control has now.
C35_MarkersDiffer ==
    /\ \A j, k \in 1..Len(rounds) :
          (j < k /\ rounds[j].ctl = rounds[k].ctl)
              => rounds[j].nowDate # rounds[k].nowDate
    /\ \A k \in 1..Len(rounds) :
          rounds[k].superseded
              => rounds[k].nowDate # heap[rounds[k].ctl].asyncValidatorFiredTime

\* C36: setValue on a leaf changes, of every strict ancestor of the leaf, the
\* pristine flag only (it becomes false): the ancestor's value, status, errors
\* and every other field are left as they were, and so is every control that
\* is neither the leaf nor one of its ancestors.
C36_NoUpwardPropagation ==
    [][(last'.op = "setValue" /\ ~IsCollection(heap[last'.id]) /\ clock' = clock)
        => \A c \in DOMAIN heap :
              IF c \in Ancestors(heap, last'.id)
              THEN heap'[c] = [heap[c] EXCEPT !.pristine = FALSE]
              ELSE c # last'.id => heap'[c] = heap[c]]_vars

\* A leaf two levels deep has just been set and its parent still holds the
\* aggregate of the leaf's previous value.
C36_Witness ==
    /\ last.op = "setValue"
    /\ ~last.threw
    /\ ~IsCollection(Target)
    /\ Cardinality(Ancestors(heap, last.id)) = 2
    /\ \A a \in Ancestors(heap, last.id) : ~heap[a].pristine
    /\ _updateValue(heap, Target.parent)[Target.parent].value
           # heap[Target.parent].value

\* C37: a setValue on a group or an array that throws has changed the value,
\* the dirty flag, the status and the errors of none of the composite's
\* controls.
C37_AllOrNothing ==
    [][(last'.op = "setValue" /\ IsCollection(heap[last'.id]) /\ last'.threw
            /\ clock' = clock)
        => \A c \in Descendants(heap, last'.id) :
              /\ heap'[c].value = heap[c].value
              /\ heap'[c].pristine = heap[c].pristine
              /\ heap'[c].status = heap[c].status
              /\ heap'[c].errors = heap[c].errors]_vars

\* C38: right after a reset that returned, every enabled leaf without async
\* validators among the control reset and its descendants holds, as errors
\* and status, the result of its sync validators on the value it holds now.
C38_ResetRevalidates ==
    (last.op = "reset" /\ ~last.threw)
        => \A c \in {last.id} \cup Descendants(heap, last.id) :
              (~IsCollection(heap[c]) /\ enabled(heap[c]) /\ NoAsyncValidators(heap[c]))
                  => /\ heap[c].errors = _runValidator(heap[c])
                     /\ heap[c].status = _calculateStatus(heap, c)

\* The composite c holds the aggregate of its children's values and the
\* status computed from its children's statuses.
UpToDate(h, c) ==
    /\ h[c].value = _updateValue(h, c)[c].value
    /\ h[c].status = _calculateStatus(h, c)

\* C39: right after updateAllValueAndValidity() on a composite, the composite
\* and every composite below it hold the aggregate of their children's values
\* and a status computed from their children's statuses.
C39_WholeSubtree ==
    last.op = "updateAllValueAndValidity"
        => \A c \in {last.id} \cup Descendants(heap, last.id) :
              IsCollection(heap[c]) => UpToDate(heap, c)

\* The options object the control of the last construction was given.
GivenOptions == last.arg[1]

\* C40: right after a control is constructed with an options object
\* {validators, asyncValidators} and no asyncValidator argument next to it,
\* its sync validator list is the list made of
\* options.validators and its async validator list is the list made of
\* options.asyncValidators; when that list is not empty and the control came
\* out VALID or PENDING of its sync validation, a round of it is in flight.
C40_OptionsObject ==
    (last.op = "new" /\ last.id \in Ids /\ ~last.threw
        /\ isOptionsObj(GivenOptions) /\ GivenOptions[1] = "options"
        /\ last.arg[2] = Undefined)
        => /\ Target.validator = Coerced(Property(GivenOptions, "validators"))
           /\ Target.asyncValidator
                 = Coerced(Property(GivenOptions, "asyncValidators"))
           /\ (Coerced(Property(GivenOptions, "asyncValidators")) # Null
                 /\ _runValidator(Target) = Null)
                 => \E k \in 1..Len(rounds) : rounds[k].ctl = last.id

====
